---- MODULE Spec2Model ----
(***************************************************************************)
(* Logistics simulation: the daily stock simulation engine (Part 1), the   *)
(* warehouse analytics aggregation and derived metrics (Part 2), the       *)
(* wide-to-long reshaping and the database loads of the loading notebook   *)
(* (Part 3), and the hybrid strategies notebook (Part 4).                  *)
(*                                                                         *)
(* Part 1 (01_stock_simulation.ipynb) is not among the source files: the   *)
(* inventory state machine, the replenishment policies and the driver are  *)
(* modelled from sections 4.1 to 4.4 of the specification.  Parts 2, 3 and *)
(* 4 are modelled from the notebooks.                                      *)
(*                                                                         *)
(* Specifications: Spec is the pipeline from the simulation to the long    *)
(* product dataset; ScenarioSpec runs the engine on the threshold scenario *)
(* of the specification; MetricsSpec applies the derived-metric cells to   *)
(* operations rows; AggSpec applies the hybrid aggregation to product      *)
(* rows; StoreSpec is the database under the Part 3 loads and the Part 4   *)
(* run; ErrorsSpec applies the staff and error cells to pairs of rows;     *)
(* UpsertSpec applies the write cells to batches of product rows.          *)
(***************************************************************************)
EXTENDS Integers, Sequences, FiniteSets, TLC

\* ------------------------------------------------------------------ bounds

\* Number of simulated days; day_index runs over 0 .. NumDays - 1.
NumDays == 3

\* Number of days the threshold scenario is run for.
ScenarioDays == 8

\* Largest number of units (orders fulfilled, inbound units) of the
\* operations rows the derived metrics are applied to.
MaxUnits == 2100

\* Largest number of product rows of the dataframes the aggregation is
\* applied to.
MaxRows == 3

\* Number of simulation exports (versions of the datasets) loaded into the
\* database.
NumVersions == 2

\* The largest number of fulfilled orders the staff and error functions are
\* applied to, the largest difference between the orders of the two
\* strategies of a warehouse day, and the largest staff count given.
MaxOrders == 520

MaxGap == 2

MaxStaff == 5

\* ---------------------------------------------------------- reference data

Products == {"P1", "P2"}

Warehouses == {"WH1"}

Strategies == {"weekly", "JIT"}

\* The lead times (in days) the products are configured with: every product
\* is run with a lead time of 0, 1 and 2 days.
LeadTimes ==
    {[p \in Products |-> IF p = "P1" THEN 0 ELSE 2],
     [p \in Products |-> IF p = "P1" THEN 1 ELSE 0],
     [p \in Products |-> IF p = "P1" THEN 2 ELSE 1]}

\* The product of the threshold scenario of the specification (section 8).
ScenarioProducts == {"S1"}

\* Immutable per-product attributes, the lead time apart (drawn in Init).
\* The scenario product has reorder_point = 50, reorder_quantity = 200 and a
\* starting inventory of 200; its daily demand is 30 or 20.
ProductParams(p) ==
    IF p = "P1"
    THEN [starting_inventory |-> 3, reorder_point |-> 3, reorder_quantity |-> 2,
          target_level |-> 4, interval |-> 2, demand_values |-> {1, 3}]
    ELSE IF p = "P2"
    THEN [starting_inventory |-> 2, reorder_point |-> 2, reorder_quantity |-> 3,
          target_level |-> 3, interval |-> 3, demand_values |-> {0, 2}]
    ELSE [starting_inventory |-> 200, reorder_point |-> 50,
          reorder_quantity |-> 200, target_level |-> 200, interval |-> 7,
          demand_values |-> {20, 30}]

\* The lead time of the scenario product.
ScenarioLeadTimes == {[p \in ScenarioProducts |-> 2]}

\* One simulation instance per (product, warehouse, strategy).
Instances == Products \X Warehouses \X Strategies

\* The scenario runs the threshold policy only.
ScenarioInstances == ScenarioProducts \X Warehouses \X {"JIT"}

\* The two hybrid strategies of Part 4.
Hybrids == {"Hybrid A", "Hybrid B"}

ProductOf(i) == i[1]

WarehouseOf(i) == i[2]

StrategyOf(i) == i[3]

\* ------------------------------------------------------------------ helpers

Min(a, b) == IF a <= b THEN a ELSE b

Max(a, b) == IF a >= b THEN a ELSE b

RECURSIVE SumQuantity(_)
\* Total quantity of a sequence of (arrival_day, quantity) orders.
SumQuantity(orders) ==
    IF orders = <<>> THEN 0
    ELSE Head(orders).quantity + SumQuantity(Tail(orders))

\* -------------------------------------------------------------------- state

VARIABLES
    lead_time,           \* product -> configured lead time
    demand,              \* (product, warehouse) -> demand realised so far, by day
    day,                 \* instance -> next day_index to simulate
    on_hand_inventory,   \* instance -> InventoryState.on_hand_inventory
    pending_arrivals,    \* instance -> sequence of (arrival_day, quantity)
    rows,                \* instance -> SimulationDay rows emitted so far
    orders,              \* instance -> order quantity decided on each day (history)
    stage,               \* position of the pipeline
    product_df,          \* wide product dataset (warehouse_products.csv)
    group_df,            \* wide operations dataset (Part 2)
    combined_product_df, \* long product dataset (Part 3)
    dim_products,        \* table dim_products: product_id -> product_class
    daily_products,      \* table daily_products: the set of its rows
    daily_operations,    \* table daily_operations: the set of its rows
    db_error,            \* the last database write raised an error
    last_write,          \* the last database write: its cell and its batch
    hybrid_products_df,  \* hybrid strategy -> its product dataframe (Part 4)
    hybrid_ops_df        \* hybrid strategy -> its operations dataframe (Part 4)

storeVars == <<dim_products, daily_products, daily_operations, db_error,
               last_write>>

hybridVars == <<hybrid_products_df, hybrid_ops_df>>

vars == <<lead_time, demand, day, on_hand_inventory, pending_arrivals, rows,
          orders, stage, product_df, group_df, combined_product_df,
          storeVars, hybridVars>>

\* ------------------------------------------------------ replenishment policy

\* A scheduled policy that also tops up on any day the stock has run out.
ScheduledOrderOnStockout(day_index, current_inventory, outstanding_orders, params) ==
    IF day_index % params.interval = 0 \/ current_inventory = 0
    THEN Max(params.target_level - current_inventory, 0)
    ELSE 0

\* Scheduled-interval variant: fires only when day_index mod interval = 0 and
\* then brings inventory up to the target level.
ScheduledOrder(day_index, current_inventory, outstanding_orders, params) ==
    IF day_index % params.interval = 0
    THEN Max(params.target_level - current_inventory, 0)
    ELSE 0

\* A threshold policy that already fires when the stock is at the reorder
\* point.
ThresholdOrderAtPoint(day_index, current_inventory, outstanding_orders, params) ==
    IF current_inventory + SumQuantity(outstanding_orders) <= params.reorder_point
    THEN params.reorder_quantity
    ELSE 0

\* A threshold policy that forgets the orders already on their way.
ThresholdOrderIgnoringPending(day_index, current_inventory, outstanding_orders, params) ==
    IF current_inventory < params.reorder_point
    THEN params.reorder_quantity
    ELSE 0

\* Threshold-triggered variant: fires whenever inventory plus outstanding
\* orders is below the reorder point; the quantity is the reorder quantity.
ThresholdOrder(day_index, current_inventory, outstanding_orders, params) ==
    IF current_inventory + SumQuantity(outstanding_orders) < params.reorder_point
    THEN params.reorder_quantity
    ELSE 0

decide_order(strategy, day_index, current_inventory, outstanding_orders, params) ==
    IF strategy = "weekly"
    THEN ScheduledOrder(day_index, current_inventory, outstanding_orders, params)
    ELSE ThresholdOrder(day_index, current_inventory, outstanding_orders, params)

\* ---------------------------------------------------- inventory state machine

\* Step 1: the pending arrivals whose arrival_day equals today.
DueArrivals(pending, today) ==
    LET IsDue(a) == a.arrival_day = today
    IN SelectSeq(pending, IsDue)

NotDueArrivals(pending, today) ==
    LET IsNotDue(a) == a.arrival_day # today
    IN SelectSeq(pending, IsNotDue)

\* Fulfilment that ships the whole demand, whatever is on hand.
FulfilledUncapped(dem, on_hand) == dem

\* Step 3: fulfilment is capped at the on-hand inventory.
Fulfilled(dem, on_hand) == Min(dem, on_hand)

\* A stockout flag raised by any demand at all.
StockoutFlagOnDemand(dem, unmet) == dem > 0

\* Step 5: the stockout flag of the emitted row.
StockoutFlag(dem, unmet) == unmet > 0

\* Step 4: the day an order decided today arrives.
ArrivalDay(today, lead) == today + lead

\* The per-day transition of one instance: steps 1 to 5 of section 4.3.
\* Returns the new InventoryState, the order decided and the emitted row.
DayTransition(i, today, on_hand, pending, dem, lead) ==
    LET params    == ProductParams(ProductOf(i))
        inbound   == SumQuantity(DueArrivals(pending, today))
        remaining == NotDueArrivals(pending, today)
        available == on_hand + inbound
        fulfilled == Fulfilled(dem, available)
        unmet     == dem - fulfilled
        left      == available - fulfilled
        quantity  == decide_order(StrategyOf(i), today, left, remaining, params)
        pending2  == IF quantity > 0
                     THEN Append(remaining,
                                 [arrival_day |-> ArrivalDay(today, lead),
                                  quantity |-> quantity])
                     ELSE remaining
    IN [on_hand  |-> left,
        pending  |-> pending2,
        order    |-> quantity,
        row      |-> [date            |-> today,
                      product_id      |-> ProductOf(i),
                      warehouse_id    |-> WarehouseOf(i),
                      strategy        |-> StrategyOf(i),
                      demand          |-> dem,
                      inbound_units   |-> inbound,
                      actual_outbound |-> fulfilled,
                      inventory_level |-> left,
                      unmet_demand    |-> unmet,
                      stockout_flag   |-> StockoutFlag(dem, unmet)]]

\* ------------------------------------------------------------------- driver

\* No write cell has run yet.
NoWrite == [cell |-> "none", batch |-> <<>>, repeated |-> FALSE]

\* The record of a run of a write cell with the given batch: the run is a
\* repetition when the write before it was the same cell with the same
\* batch.
WriteOf(cell, batch) ==
    [cell |-> cell, batch |-> batch,
     repeated |-> last_write.cell = cell /\ last_write.batch = batch]

\* The database before any load, and the Part 4 notebook before any cell.
EmptyStore ==
    /\ dim_products = <<>>
    /\ daily_products = {}
    /\ daily_operations = {}
    /\ db_error = FALSE
    /\ last_write = NoWrite

NoHybrids ==
    /\ hybrid_products_df = [h \in Hybrids |-> <<>>]
    /\ hybrid_ops_df = [h \in Hybrids |-> <<>>]

\* The simulation engine is not part of the run.
IdleEngine ==
    /\ lead_time = <<>>
    /\ demand = <<>>
    /\ day = <<>>
    /\ on_hand_inventory = <<>>
    /\ pending_arrivals = <<>>
    /\ rows = <<>>
    /\ orders = <<>>

\* No dataframe has been built yet.
NoFrames ==
    /\ product_df = <<>>
    /\ group_df = <<>>
    /\ combined_product_df = <<>>

Init ==
    /\ lead_time \in LeadTimes
    /\ demand = [pw \in Products \X Warehouses |-> <<>>]
    /\ day = [i \in Instances |-> 0]
    /\ on_hand_inventory =
           [i \in Instances |-> ProductParams(ProductOf(i)).starting_inventory]
    /\ pending_arrivals = [i \in Instances |-> <<>>]
    /\ rows = [i \in Instances |-> <<>>]
    /\ orders = [i \in Instances |-> <<>>]
    /\ stage = "simulate"
    /\ product_df = <<>>
    /\ group_df = <<>>
    /\ combined_product_df = <<>>
    /\ EmptyStore
    /\ NoHybrids

\* A date range that loses its last day.
DateInRangeShort(d) == d < NumDays - 1

\* The dates the driver iterates over.
DateInRange(d) == d < NumDays

\* Step 2: today's demand of a (product, warehouse); the same realisation is
\* seen by every strategy simulated for that product and date.
DemandChoices(i) ==
    LET pw == <<ProductOf(i), WarehouseOf(i)>>
    IN IF Len(demand[pw]) > day[i]
       THEN {demand[pw][day[i] + 1]}
       ELSE ProductParams(ProductOf(i)).demand_values

\* A day-step in which the products of a warehouse share one stock pool: the
\* demand an instance cannot meet is taken from another product's stock.
SimulateDayCoupled(i) ==
    /\ stage = "simulate"
    /\ DateInRange(day[i])
    /\ \E dem \in DemandChoices(i) :
        LET pw == <<ProductOf(i), WarehouseOf(i)>>
            t  == DayTransition(i, day[i], on_hand_inventory[i],
                                pending_arrivals[i], dem, lead_time[ProductOf(i)])
            other  == CHOOSE j \in Instances :
                          /\ ProductOf(j) # ProductOf(i)
                          /\ WarehouseOf(j) = WarehouseOf(i)
                          /\ StrategyOf(j) = StrategyOf(i)
            borrowed == Min(t.row.unmet_demand, on_hand_inventory[other])
        IN /\ demand' = IF Len(demand[pw]) > day[i]
                        THEN demand
                        ELSE [demand EXCEPT ![pw] = Append(@, dem)]
           /\ on_hand_inventory' = [on_hand_inventory EXCEPT ![i] = t.on_hand,
                                                             ![other] = @ - borrowed]
           /\ pending_arrivals' = [pending_arrivals EXCEPT ![i] = t.pending]
           /\ rows' = [rows EXCEPT ![i] = Append(@, t.row)]
           /\ orders' = [orders EXCEPT ![i] = Append(@, t.order)]
           /\ day' = [day EXCEPT ![i] = @ + 1]
    /\ UNCHANGED <<lead_time, stage, product_df, group_df, combined_product_df,
                   storeVars, hybridVars>>

\* One simulated day of instance i.
SimulateDay(i) ==
    /\ stage = "simulate"
    /\ DateInRange(day[i])
    /\ \E dem \in DemandChoices(i) :
        LET pw == <<ProductOf(i), WarehouseOf(i)>>
            t  == DayTransition(i, day[i], on_hand_inventory[i],
                                pending_arrivals[i], dem, lead_time[ProductOf(i)])
        IN /\ demand' = IF Len(demand[pw]) > day[i]
                        THEN demand
                        ELSE [demand EXCEPT ![pw] = Append(@, dem)]
           /\ on_hand_inventory' = [on_hand_inventory EXCEPT ![i] = t.on_hand]
           /\ pending_arrivals' = [pending_arrivals EXCEPT ![i] = t.pending]
           /\ rows' = [rows EXCEPT ![i] = Append(@, t.row)]
           /\ orders' = [orders EXCEPT ![i] = Append(@, t.order)]
           /\ day' = [day EXCEPT ![i] = @ + 1]
    /\ UNCHANGED <<lead_time, stage, product_df, group_df, combined_product_df,
                   storeVars, hybridVars>>

AllSimulated == \A i \in Instances : day[i] = NumDays

\* ------------------------------------------------- the threshold scenario

\* The engine set up for the scenario product alone.
ScenarioInit ==
    /\ lead_time \in ScenarioLeadTimes
    /\ demand = [pw \in ScenarioProducts \X Warehouses |-> <<>>]
    /\ day = [i \in ScenarioInstances |-> 0]
    /\ on_hand_inventory =
           [i \in ScenarioInstances |->
               ProductParams(ProductOf(i)).starting_inventory]
    /\ pending_arrivals = [i \in ScenarioInstances |-> <<>>]
    /\ rows = [i \in ScenarioInstances |-> <<>>]
    /\ orders = [i \in ScenarioInstances |-> <<>>]
    /\ stage = "scenario"
    /\ NoFrames
    /\ EmptyStore
    /\ NoHybrids

\* One simulated day of the scenario instance i: the same transition as in
\* SimulateDay, over the scenario's date range.
ScenarioDay(i) ==
    /\ stage = "scenario"
    /\ day[i] < ScenarioDays
    /\ \E dem \in DemandChoices(i) :
        LET pw == <<ProductOf(i), WarehouseOf(i)>>
            t  == DayTransition(i, day[i], on_hand_inventory[i],
                                pending_arrivals[i], dem, lead_time[ProductOf(i)])
        IN /\ demand' = [demand EXCEPT ![pw] = Append(@, dem)]
           /\ on_hand_inventory' = [on_hand_inventory EXCEPT ![i] = t.on_hand]
           /\ pending_arrivals' = [pending_arrivals EXCEPT ![i] = t.pending]
           /\ rows' = [rows EXCEPT ![i] = Append(@, t.row)]
           /\ orders' = [orders EXCEPT ![i] = Append(@, t.order)]
           /\ day' = [day EXCEPT ![i] = @ + 1]
    /\ UNCHANGED <<lead_time, stage, product_df, group_df, combined_product_df,
                   storeVars, hybridVars>>

ScenarioNext == \E i \in ScenarioInstances : ScenarioDay(i)

ScenarioSpec == ScenarioInit /\ [][ScenarioNext]_vars

\* ------------------------------------------------- dataframes and columns
\* A dataframe is a sequence of rows; a row is a function from column names
\* to values.  A column name is the sequence of its words, the underscores
\* being the separators: "inbound_units_weekly" is <<"inbound", "units",
\* "weekly">>, and the suffix "_weekly" is <<"weekly">>.

c_date == <<"date">>

c_product_id == <<"product", "id">>

c_warehouse_id == <<"warehouse", "id">>

c_demand == <<"demand">>

c_strategy == <<"strategy">>

c_inbound_units == <<"inbound", "units">>

c_actual_outbound == <<"actual", "outbound">>

c_inventory_level == <<"inventory", "level">>

c_unmet_demand == <<"unmet", "demand">>

c_stockout_flag == <<"stockout", "flag">>

c_orders_fulfilled == <<"orders", "fulfilled">>

c_missed_sales == <<"missed", "sales">>

s_weekly == <<"weekly">>

s_jit == <<"jit">>

\* The per-strategy columns of a product row.
ProductMeasures ==
    {c_inbound_units, c_actual_outbound, c_inventory_level, c_unmet_demand,
     c_stockout_flag}

Columns(df) == IF df = <<>> THEN {} ELSE DOMAIN df[1]

SeqToSet(s) == {s[k] : k \in DOMAIN s}

\* str.endswith(suffix), the suffix starting with an underscore.
EndsWith(column, suffix) ==
    /\ Len(column) > Len(suffix)
    /\ SubSeq(column, Len(column) - Len(suffix) + 1, Len(column)) = suffix

RECURSIVE RemoveFrom(_, _, _)
\* str.replace(suffix, ""): every occurrence of the underscore-led suffix in
\* the words from position k on is removed.
RemoveFrom(column, suffix, k) ==
    IF k > Len(column) THEN column
    ELSE IF /\ k > 1
            /\ k + Len(suffix) - 1 <= Len(column)
            /\ SubSeq(column, k, k + Len(suffix) - 1) = suffix
         THEN RemoveFrom(SubSeq(column, 1, k - 1)
                           \o SubSeq(column, k + Len(suffix), Len(column)),
                         suffix, k)
         ELSE RemoveFrom(column, suffix, k + 1)

Replace(column, suffix) == RemoveFrom(column, suffix, 1)

\* Fixed orders of the reference tables, used to order dataframe rows.
ProductOrder == <<"P1", "P2">>

WarehouseOrder == <<"WH1">>

\* The row of the wide product dataset for one (date, product, warehouse):
\* the shared columns and one group of columns per strategy.
WideProductRow(d, p, w) ==
    LET wk == rows[<<p, w, "weekly">>][d + 1]
        jt == rows[<<p, w, "JIT">>][d + 1]
        Value(r, m) ==
            IF m = c_inbound_units THEN r.inbound_units
            ELSE IF m = c_actual_outbound THEN r.actual_outbound
            ELSE IF m = c_inventory_level THEN r.inventory_level
            ELSE IF m = c_unmet_demand THEN r.unmet_demand
            ELSE r.stockout_flag
    IN [c \in {c_date, c_product_id, c_warehouse_id, c_demand}
              \cup {m \o s_weekly : m \in ProductMeasures}
              \cup {m \o s_jit : m \in ProductMeasures} |->
          IF c = c_date THEN d
          ELSE IF c = c_product_id THEN p
          ELSE IF c = c_warehouse_id THEN w
          ELSE IF c = c_demand THEN demand[<<p, w>>][d + 1]
          ELSE IF EndsWith(c, s_weekly) THEN Value(wk, Replace(c, s_weekly))
          ELSE Value(jt, Replace(c, s_jit))]

\* The driver combines the rows of all instances into the product-level
\* dataset, ordered by date, product and warehouse.
CombineRows ==
    LET np == Len(ProductOrder)
        nw == Len(WarehouseOrder)
    IN [k \in 1 .. NumDays * np * nw |->
          WideProductRow((k - 1) \div (np * nw),
                         ProductOrder[(((k - 1) \div nw) % np) + 1],
                         WarehouseOrder[((k - 1) % nw) + 1])]

ExportProducts ==
    /\ stage = "simulate"
    /\ AllSimulated
    /\ product_df' = CombineRows
    /\ stage' = "exported"
    /\ UNCHANGED <<lead_time, demand, day, on_hand_inventory, pending_arrivals,
                   rows, orders, group_df, combined_product_df, storeVars,
                   hybridVars>>

\* -------------------------------------------- Part 2: warehouse analytics

\* The columns summed per (date, warehouse), for each strategy suffix.
SummedMeasures ==
    {c_inbound_units, c_actual_outbound, c_inventory_level, c_unmet_demand}

selected_columns ==
    {c_date, c_warehouse_id}
        \cup {m \o s_weekly : m \in SummedMeasures}
        \cup {m \o s_jit : m \in SummedMeasures}

\* df[columns]: the dataframe restricted to the given columns.
SelectColumns(df, columns) ==
    [k \in DOMAIN df |-> [c \in columns |-> df[k][c]]]

RECURSIVE SumColumnAllDates(_, _, _, _)
\* A sum that groups by warehouse only, adding up the rows of every date.
SumColumnAllDates(df, key, c, n) ==
    IF n = 0 THEN 0
    ELSE SumColumnAllDates(df, key, c, n - 1)
           + (IF df[n][c_warehouse_id] = key[2] THEN df[n][c] ELSE 0)

RECURSIVE SumColumn(_, _, _, _)
\* The sum of column c over the first n rows of df that belong to the group
\* (date, warehouse_id) = key.
SumColumn(df, key, c, n) ==
    IF n = 0 THEN 0
    ELSE SumColumn(df, key, c, n - 1)
           + (IF <<df[n][c_date], df[n][c_warehouse_id]>> = key
              THEN df[n][c] ELSE 0)

\* The position of a group key in the sorted order of the groups.
WarehouseRank(w) == CHOOSE k \in DOMAIN WarehouseOrder : WarehouseOrder[k] = w

KeyRank(key) == key[1] * Len(WarehouseOrder) + WarehouseRank(key[2])

RECURSIVE SortKeys(_)
SortKeys(keys) ==
    IF keys = {} THEN <<>>
    ELSE LET first == CHOOSE k \in keys :
                          \A o \in keys : KeyRank(k) <= KeyRank(o)
         IN <<first>> \o SortKeys(keys \ {first})

\* df.groupby(["date", "warehouse_id"]).agg({...: "sum"}).reset_index():
\* one row per group, the groups in sorted order, every other column summed.
GroupBySum(df) ==
    LET keys    == {<<df[k][c_date], df[k][c_warehouse_id]>> : k \in DOMAIN df}
        sorted  == SortKeys(keys)
        summed  == Columns(df) \ {c_date, c_warehouse_id}
    IN [g \in DOMAIN sorted |->
          [c \in Columns(df) |->
             IF c = c_date THEN sorted[g][1]
             ELSE IF c = c_warehouse_id THEN sorted[g][2]
             ELSE SumColumn(df, sorted[g], c, Len(df))]]

\* The rename of the aggregated columns.
RenamedOperation(c) ==
    IF c = c_actual_outbound \o s_weekly THEN c_orders_fulfilled \o s_weekly
    ELSE IF c = c_unmet_demand \o s_weekly THEN c_missed_sales \o s_weekly
    ELSE IF c = c_actual_outbound \o s_jit THEN c_orders_fulfilled \o s_jit
    ELSE IF c = c_unmet_demand \o s_jit THEN c_missed_sales \o s_jit
    ELSE c

RenameOperations(df) ==
    [k \in DOMAIN df |->
       [c \in {RenamedOperation(o) : o \in DOMAIN df[k]} |->
          df[k][CHOOSE o \in DOMAIN df[k] : RenamedOperation(o) = c]]]

AggregateOperations ==
    /\ stage = "exported"
    /\ group_df' =
         RenameOperations(GroupBySum(SelectColumns(product_df, selected_columns)))
    /\ stage' = "aggregated"
    /\ UNCHANGED <<lead_time, demand, day, on_hand_inventory, pending_arrivals,
                   rows, orders, product_df, combined_product_df, storeVars,
                   hybridVars>>

\* ------------------------------------------------- Part 3: wide to long

shared_columns_pro == <<c_date, c_product_id, c_warehouse_id, c_demand>>

\* A reshaping that drops the last of the shared columns.
select_one_strategy_short(df, underscore_strategy, shared_columns, strategy) ==
    LET column_list == {c \in Columns(df) : EndsWith(c, underscore_strategy)}
        renamed(c)  == Replace(c, underscore_strategy)
        kept        == SeqToSet(SubSeq(shared_columns, 1, Len(shared_columns) - 1))
                           \cup column_list
        Name(c)     == IF c \in column_list THEN renamed(c) ELSE c
    IN [k \in DOMAIN df |->
          [c \in {Name(o) : o \in kept} \cup {c_strategy} |->
             IF c = c_strategy THEN strategy
             ELSE df[k][CHOOSE o \in kept : Name(o) = c]]]

\* The independent columns and the columns of one strategy, the strategy
\* suffix removed from their names, plus a strategy column.
select_one_strategy(df, underscore_strategy, shared_columns, strategy) ==
    LET column_list == {c \in Columns(df) : EndsWith(c, underscore_strategy)}
        renamed(c)  == Replace(c, underscore_strategy)
        kept        == SeqToSet(shared_columns) \cup column_list
        Name(c)     == IF c \in column_list THEN renamed(c) ELSE c
    IN [k \in DOMAIN df |->
          [c \in {Name(o) : o \in kept} \cup {c_strategy} |->
             IF c = c_strategy THEN strategy
             ELSE df[k][CHOOSE o \in kept : Name(o) = c]]]

WideToLong ==
    /\ stage = "aggregated"
    /\ LET weekly_pro_df ==
               select_one_strategy(product_df, s_weekly, shared_columns_pro, "weekly")
           jit_pro_df ==
               select_one_strategy(product_df, s_jit, shared_columns_pro, "JIT")
       IN combined_product_df' = weekly_pro_df \o jit_pro_df
    /\ stage' = "long"
    /\ UNCHANGED <<lead_time, demand, day, on_hand_inventory, pending_arrivals,
                   rows, orders, product_df, group_df, storeVars, hybridVars>>

\* ------------------------------------------- Part 2: derived metrics
\* A quotient of two integers is kept as the pair of its operands, the
\* float it stands for being num / den; 0 / 0 is NaN.

c_outbound_shipments == <<"outbound", "shipments">>

c_van_utilization == <<"van", "utilization">>

c_inbound_shipments == <<"inbound", "shipments">>

c_truck_utilization == <<"truck", "utilization">>

\* a / b on a column of integers.
Divide(a, b) == [num |-> a, den |-> b]

\* The float is NaN: the result of 0 / 0.
IsNaN(x) == x.num = 0 /\ x.den = 0

\* A ceiling that rounds to the nearest integer.
CeilNearest(x) == (2 * x.num + x.den) \div (2 * x.den)

\* .apply(np.ceil).astype("int") of a quotient by a positive capacity.
Ceil(x) ==
    IF x.num % x.den = 0 THEN x.num \div x.den ELSE (x.num \div x.den) + 1

\* Units per delivery van and per truck.
van_capacity == 100

large_truck_capacity == 1000

small_truck_capacity == 500

\* Shipments and utilization of one row: the units of column units_column
\* carried by vehicles of the given capacity.
ShipmentColumns(df, units_column, shipments_column, utilization_column, capacity) ==
    [k \in DOMAIN df |->
       LET row == df[k]
           shipments == Ceil(Divide(row[units_column], capacity))
       IN [c \in DOMAIN row \cup {shipments_column, utilization_column} |->
             IF c = shipments_column THEN shipments
             ELSE IF c = utilization_column
                  THEN Divide(row[units_column], shipments * capacity)
                  ELSE row[c]]]

\* group_df["outbound_shipments_<s>"] and group_df["van_utilization_<s>"].
OutboundShipmentsOf(df, s) ==
    ShipmentColumns(df, c_orders_fulfilled \o s, c_outbound_shipments \o s,
                    c_van_utilization \o s, van_capacity)

\* Inbound shipments computed for every strategy with the small trucks.
InboundShipmentsSmall(df, s) ==
    ShipmentColumns(df, c_inbound_units \o s, c_inbound_shipments \o s,
                    c_truck_utilization \o s, small_truck_capacity)

\* group_df["inbound_shipments_<s>"] and group_df["truck_utilization_<s>"]:
\* large trucks for the weekly strategy, small trucks for JIT.
InboundShipmentsOf(df, s) ==
    ShipmentColumns(df, c_inbound_units \o s, c_inbound_shipments \o s,
                    c_truck_utilization \o s,
                    IF s = s_weekly THEN large_truck_capacity
                    ELSE small_truck_capacity)

\* The outbound cells of Part 2: shipments and van utilization of both
\* strategies.
OutboundShipments ==
    /\ stage = "p2_outbound"
    /\ group_df' = OutboundShipmentsOf(OutboundShipmentsOf(group_df, s_weekly), s_jit)
    /\ stage' = "p2_inbound"
    /\ UNCHANGED <<lead_time, demand, day, on_hand_inventory, pending_arrivals,
                   rows, orders, product_df, combined_product_df, storeVars,
                   hybridVars>>

\* The inbound cells of Part 2.
InboundShipments ==
    /\ stage = "p2_inbound"
    /\ group_df' = InboundShipmentsOf(InboundShipmentsOf(group_df, s_weekly), s_jit)
    /\ stage' = "p2_staff"
    /\ UNCHANGED <<lead_time, demand, day, on_hand_inventory, pending_arrivals,
                   rows, orders, product_df, combined_product_df, storeVars,
                   hybridVars>>

\* ------------------------------------------- Part 4: hybrid operations

\* The grouping key of the hybrid aggregation.
GroupKey(row) == <<row[c_date], row[c_warehouse_id], row[c_strategy]>>

\* Strategy labels in sorted order.
StrategyOrder == <<"Hybrid A", "Hybrid B", "JIT", "weekly">>

StrategyRank(s) == CHOOSE k \in DOMAIN StrategyOrder : StrategyOrder[k] = s

GroupRank(key) ==
    (key[1] * Len(WarehouseOrder) + WarehouseRank(key[2])) * Len(StrategyOrder)
        + StrategyRank(key[3])

RECURSIVE SortGroups(_)
SortGroups(keys) ==
    IF keys = {} THEN <<>>
    ELSE LET first == CHOOSE k \in keys :
                          \A o \in keys : GroupRank(k) <= GroupRank(o)
         IN <<first>> \o SortGroups(keys \ {first})

RECURSIVE SumGroupLast(_, _, _, _)
\* An aggregation that keeps the value of the last row of the group.
SumGroupLast(df, key, c, n) ==
    IF n = 0 THEN 0
    ELSE IF GroupKey(df[n]) = key THEN df[n][c]
         ELSE SumGroupLast(df, key, c, n - 1)

RECURSIVE SumGroup(_, _, _, _)
\* "sum": the sum of column c over the first n rows of df that belong to
\* the group key.
SumGroup(df, key, c, n) ==
    IF n = 0 THEN 0
    ELSE SumGroup(df, key, c, n - 1)
           + (IF GroupKey(df[n]) = key THEN df[n][c] ELSE 0)

\* The columns of an aggregated hybrid operations row.
HybridOperationColumns ==
    {c_date, c_warehouse_id, c_strategy, c_inbound_units, c_orders_fulfilled,
     c_inventory_level, c_missed_sales}

\* groupby(["date", "warehouse_id", "strategy"]).agg({...: "sum"}), the
\* rename of actual_outbound and unmet_demand, and reset_index().
HybridGroupBySum(df) ==
    LET sorted == SortGroups({GroupKey(df[k]) : k \in DOMAIN df})
    IN [g \in DOMAIN sorted |->
          [c \in HybridOperationColumns |->
             IF c = c_date THEN sorted[g][1]
             ELSE IF c = c_warehouse_id THEN sorted[g][2]
             ELSE IF c = c_strategy THEN sorted[g][3]
             ELSE IF c = c_orders_fulfilled
                  THEN SumGroup(df, sorted[g], c_actual_outbound, Len(df))
             ELSE IF c = c_missed_sales
                  THEN SumGroup(df, sorted[g], c_unmet_demand, Len(df))
             ELSE SumGroup(df, sorted[g], c, Len(df))]]

calculate_outbound_shipments(df, capacity) ==
    ShipmentColumns(df, c_orders_fulfilled, c_outbound_shipments,
                    c_van_utilization, capacity)

calculate_inbound_shipments(df, truck_capacity) ==
    ShipmentColumns(df, c_inbound_units, c_inbound_shipments,
                    c_truck_utilization, truck_capacity)

\* The default arguments of the two functions.
default_van_capacity == 100

default_truck_capacity == 500

\* The aggregation cells of Part 4, for both hybrids.
HybridAggregate ==
    /\ stage = "p4_aggregate"
    /\ hybrid_ops_df' = [h \in Hybrids |-> HybridGroupBySum(hybrid_products_df[h])]
    /\ stage' = "p4_metrics"
    /\ UNCHANGED <<lead_time, demand, day, on_hand_inventory, pending_arrivals,
                   rows, orders, product_df, group_df, combined_product_df,
                   storeVars, hybrid_products_df>>

\* The outbound and inbound cells of Part 4, for both hybrids.
HybridMetrics ==
    /\ stage = "p4_metrics"
    /\ hybrid_ops_df' =
          [h \in Hybrids |->
             calculate_inbound_shipments(
                 calculate_outbound_shipments(hybrid_ops_df[h], default_van_capacity),
                 default_truck_capacity)]
    /\ stage' = "p4_staff"
    /\ UNCHANGED <<lead_time, demand, day, on_hand_inventory, pending_arrivals,
                   rows, orders, product_df, group_df, combined_product_df,
                   storeVars, hybrid_products_df>>

\* ------------------------------------------------- staff count and errors
\* determine_staff_count and determine_expected_errors are defined in Part 2
\* and again, with the same body, in Part 4.  A float is the fraction of two
\* integers, as for the shipments.

c_staff_count == <<"staff", "count">>

c_errors == <<"errors">>

\* x / n, x * y and x * n on floats.
DivideBy(x, n) == [num |-> x.num, den |-> x.den * n]

Times(x, y) == [num |-> x.num * y.num, den |-> x.den * y.den]

TimesInteger(x, n) == [num |-> x.num * n, den |-> x.den]

\* x <= y for fractions with positive denominators.
AtMost(x, y) == x.num * y.den <= y.num * x.den

\* A minimum that never takes its second argument.
MinOfFirst(x, y) == x

\* min(x, y) of two floats.
MinOf(x, y) == IF AtMost(y, x) THEN y ELSE x

\* math.floor(x).
Floor(x) == x.num \div x.den

\* A conversion to int that rounds to the nearest integer.
TruncateNearest(x) == (2 * x.num + x.den) \div (2 * x.den)

\* int(x): the fraction is dropped, towards zero.
Truncate(x) ==
    IF x.num >= 0 THEN x.num \div x.den ELSE 0 - ((0 - x.num) \div x.den)

\* A staff count without the minimum of two workers.
determine_staff_count_no_minimum(row, outbound_column) ==
    LET outbound_orders == row[outbound_column]
        workers_needed == Floor(Divide(outbound_orders, 50))
    IN Min(workers_needed, 5)

determine_staff_count(row, outbound_column) ==
    LET outbound_orders == row[outbound_column]
        workers_needed == Floor(Divide(outbound_orders, 50))
    IN Min(Max(workers_needed, 2), 5)

\* Expected errors whose rate falls back to the base rate above the cap.
determine_expected_errors_reset(row, outbound_column, staff_column) ==
    LET outbound_orders == row[outbound_column]
        staff == row[staff_column]
        base_error_rate == Divide(1, 100)
        orders_per_worker == Divide(outbound_orders, staff)
        error_rate_multiplier == DivideBy(orders_per_worker, 50)
        uncapped == Times(base_error_rate, error_rate_multiplier)
        total_error_rate == IF AtMost(uncapped, Divide(5, 100)) THEN uncapped
                            ELSE base_error_rate
        expected_errors == TimesInteger(total_error_rate, outbound_orders)
    IN IF outbound_orders = 0 \/ staff = 0 THEN 0 ELSE Truncate(expected_errors)

determine_expected_errors(row, outbound_column, staff_column) ==
    LET outbound_orders == row[outbound_column]
        staff == row[staff_column]
        base_error_rate == Divide(1, 100)
        orders_per_worker == Divide(outbound_orders, staff)
        error_rate_multiplier == DivideBy(orders_per_worker, 50)
        total_error_rate == MinOf(Times(base_error_rate, error_rate_multiplier),
                                  Divide(5, 100))
        expected_errors == TimesInteger(total_error_rate, outbound_orders)
    IN IF outbound_orders = 0 \/ staff = 0 THEN 0 ELSE Truncate(expected_errors)

\* df[column] = df.apply(f, axis=1): the values that apply has computed,
\* one for every row, under a new column.
WithColumn(df, column, values) ==
    [k \in DOMAIN df |->
       [c \in DOMAIN df[k] \cup {column} |->
          IF c = column THEN values[k] ELSE df[k][c]]]

\* group_df["staff_count_<s>"].
StaffCountOf(df, s) ==
    WithColumn(df, c_staff_count \o s,
               [k \in DOMAIN df |->
                  determine_staff_count(df[k], c_orders_fulfilled \o s)])

\* group_df["errors_<s>"].
ExpectedErrorsOf(df, s) ==
    WithColumn(df, c_errors \o s,
               [k \in DOMAIN df |->
                  determine_expected_errors(df[k], c_orders_fulfilled \o s,
                                            c_staff_count \o s)])

\* The staff count cell of Part 2.
StaffCount ==
    /\ stage = "p2_staff"
    /\ group_df' = StaffCountOf(StaffCountOf(group_df, s_weekly), s_jit)
    /\ stage' = "p2_errors"
    /\ UNCHANGED <<lead_time, demand, day, on_hand_inventory, pending_arrivals,
                   rows, orders, product_df, combined_product_df, storeVars,
                   hybridVars>>

\* The human error cells of Part 2.
ExpectedErrors ==
    /\ stage = "p2_errors"
    /\ group_df' = ExpectedErrorsOf(ExpectedErrorsOf(group_df, s_weekly), s_jit)
    /\ stage' = "p4_aggregate"
    /\ UNCHANGED <<lead_time, demand, day, on_hand_inventory, pending_arrivals,
                   rows, orders, product_df, combined_product_df, storeVars,
                   hybridVars>>

\* hybrid_x_ops_df["staff_count"] of Part 4.
HybridStaffCountOf(df) ==
    WithColumn(df, c_staff_count,
               [k \in DOMAIN df |-> determine_staff_count(df[k], c_orders_fulfilled)])

\* hybrid_x_ops_df["errors"] of Part 4.
HybridExpectedErrorsOf(df) ==
    WithColumn(df, c_errors,
               [k \in DOMAIN df |->
                  determine_expected_errors(df[k], c_orders_fulfilled,
                                            c_staff_count)])

\* The staff cell of Part 4, for both hybrids.
HybridStaffCount ==
    /\ stage = "p4_staff"
    /\ hybrid_ops_df' = [h \in Hybrids |-> HybridStaffCountOf(hybrid_ops_df[h])]
    /\ stage' = "p4_errors"
    /\ UNCHANGED <<lead_time, demand, day, on_hand_inventory, pending_arrivals,
                   rows, orders, product_df, group_df, combined_product_df,
                   storeVars, hybrid_products_df>>

\* The errors cell of Part 4, for both hybrids.
HybridExpectedErrors ==
    /\ stage = "p4_errors"
    /\ hybrid_ops_df' = [h \in Hybrids |-> HybridExpectedErrorsOf(hybrid_ops_df[h])]
    /\ stage' = "p4_write_a"
    /\ UNCHANGED <<lead_time, demand, day, on_hand_inventory, pending_arrivals,
                   rows, orders, product_df, group_df, combined_product_df,
                   storeVars, hybrid_products_df>>

\* -------------------------------------- derived metrics on operations rows

\* The columns of a long product row (daily_products).
LongProductColumns ==
    {c_date, c_product_id, c_warehouse_id, c_strategy, c_demand}
        \cup ProductMeasures

LongProductRow(d, p, w, s, dem, inbound, outbound, level, unmet) ==
    [c \in LongProductColumns |->
       IF c = c_date THEN d
       ELSE IF c = c_product_id THEN p
       ELSE IF c = c_warehouse_id THEN w
       ELSE IF c = c_strategy THEN s
       ELSE IF c = c_demand THEN dem
       ELSE IF c = c_inbound_units THEN inbound
       ELSE IF c = c_actual_outbound THEN outbound
       ELSE IF c = c_inventory_level THEN level
       ELSE IF c = c_unmet_demand THEN unmet
       ELSE unmet > 0]

\* The summed columns of the Part 2 operations dataframe after the rename.
OperationMeasures ==
    {c_inbound_units, c_orders_fulfilled, c_inventory_level, c_missed_sales}

\* A Part 2 operations row (wide) with n units in every summed column.
WideOperationsRow(n) ==
    [c \in {c_date, c_warehouse_id}
              \cup {m \o s : m \in OperationMeasures, s \in {s_weekly, s_jit}} |->
       IF c = c_date THEN 0
       ELSE IF c = c_warehouse_id THEN "WH1"
       ELSE n]

\* Units of a second product, received on the same day.
OtherUnits == {0, 300}

\* The metric cells of Parts 2 and 4 are applied to a warehouse day with n
\* units ordered and received; under the hybrids a second product receives
\* m more units.
MetricsInit ==
    /\ IdleEngine
    /\ EmptyStore
    /\ product_df = <<>>
    /\ combined_product_df = <<>>
    /\ stage = "p2_outbound"
    /\ \E n \in 0 .. MaxUnits, m \in OtherUnits :
          /\ group_df = <<WideOperationsRow(n)>>
          /\ hybrid_products_df =
                [h \in Hybrids |->
                   <<LongProductRow(0, "P1", "WH1", h, n, n, n, n, 0),
                     LongProductRow(0, "P2", "WH1", h, 0, m, 0, m, 0)>>]
    /\ hybrid_ops_df = [h \in Hybrids |-> <<>>]

MetricsNext ==
    \/ OutboundShipments
    \/ InboundShipments
    \/ StaffCount
    \/ ExpectedErrors
    \/ HybridAggregate
    \/ HybridMetrics
    \/ HybridStaffCount
    \/ HybridExpectedErrors

MetricsSpec == MetricsInit /\ [][MetricsNext]_vars

\* ------------------------------------------ staff and errors on their own

\* The Part 2 operations row of a warehouse day with a fulfilled orders
\* under the weekly strategy and b under JIT, after the shipment cells.
StaffedWideRow(a, b) ==
    LET base == [WideOperationsRow(a) EXCEPT ![c_orders_fulfilled \o s_jit] = b]
        outbound == OutboundShipmentsOf(OutboundShipmentsOf(<<base>>, s_weekly), s_jit)
    IN InboundShipmentsOf(InboundShipmentsOf(outbound, s_weekly), s_jit)

\* The operations rows of a hybrid with n fulfilled orders, after the
\* shipment cells.
StaffedHybridRow(h, n) ==
    LET base == [c \in HybridOperationColumns |->
                   IF c = c_date THEN 0
                   ELSE IF c = c_warehouse_id THEN "WH1"
                   ELSE IF c = c_strategy THEN h
                   ELSE n]
    IN calculate_inbound_shipments(
           calculate_outbound_shipments(<<base>>, default_van_capacity),
           default_truck_capacity)

\* The staff and error cells of Parts 2 and 4 are applied to a warehouse day
\* with a and b fulfilled orders (weekly and JIT, Hybrid A and Hybrid B);
\* the error cells are also applied to rows that carry any staff counts s
\* and t.
ErrorsInit ==
    /\ IdleEngine
    /\ EmptyStore
    /\ product_df = <<>>
    /\ combined_product_df = <<>>
    /\ hybrid_products_df = [h \in Hybrids |-> <<>>]
    /\ stage \in {"p2_staff", "p2_errors", "p4_staff", "p4_errors"}
    /\ \E a \in 0 .. MaxOrders, gap \in 0 .. MaxGap :
          LET b == a + gap
              wide == StaffedWideRow(a, b)
              hyb == [h \in Hybrids |->
                        StaffedHybridRow(h, IF h = "Hybrid A" THEN a ELSE b)]
          IN IF stage \in {"p2_staff", "p4_staff"}
             THEN /\ group_df = wide
                  /\ hybrid_ops_df = hyb
             ELSE \E s \in 0 .. MaxStaff, t \in 0 .. MaxStaff :
                     /\ group_df =
                           WithColumn(WithColumn(wide, c_staff_count \o s_weekly,
                                                 [k \in DOMAIN wide |-> s]),
                                      c_staff_count \o s_jit,
                                      [k \in DOMAIN wide |-> t])
                     /\ hybrid_ops_df =
                           [h \in Hybrids |->
                              WithColumn(hyb[h], c_staff_count,
                                         [k \in DOMAIN hyb[h] |->
                                            IF h = "Hybrid A" THEN s ELSE t])]

ErrorsNext ==
    \/ StaffCount
    \/ ExpectedErrors
    \/ HybridStaffCount
    \/ HybridExpectedErrors

ErrorsSpec == ErrorsInit /\ [][ErrorsNext]_vars

\* ------------------------------------------ aggregation of product rows

\* The product rows the aggregations are applied to: a date and a number
\* of units each.
AggDates == {0, 1}

AggUnits == {0, 1, 2}

\* The value of a measure of a product row with u units.
MeasureOf(m, u) ==
    IF m = c_inbound_units THEN u
    ELSE IF m = c_actual_outbound THEN u + 1
    ELSE IF m = c_inventory_level THEN 2 * u
    ELSE IF m = c_unmet_demand THEN u * u
    ELSE u > 0

\* The k-th row of the wide product dataset.
AggWideRow(k, d, u) ==
    [c \in {c_date, c_product_id, c_warehouse_id, c_demand}
              \cup {m \o s_weekly : m \in ProductMeasures}
              \cup {m \o s_jit : m \in ProductMeasures} |->
       IF c = c_date THEN d
       ELSE IF c = c_product_id THEN ProductOrder[((k - 1) % Len(ProductOrder)) + 1]
       ELSE IF c = c_warehouse_id THEN "WH1"
       ELSE IF c = c_demand THEN u + 1
       ELSE IF EndsWith(c, s_weekly) THEN MeasureOf(Replace(c, s_weekly), u)
       ELSE MeasureOf(Replace(c, s_jit), u + 1)]

\* The k-th row of a hybrid product dataframe.
AggLongRow(k, d, u, h) ==
    LongProductRow(d, ProductOrder[((k - 1) % Len(ProductOrder)) + 1], "WH1", h,
                   u + 1, MeasureOf(c_inbound_units, u),
                   MeasureOf(c_actual_outbound, u),
                   MeasureOf(c_inventory_level, u),
                   MeasureOf(c_unmet_demand, u))

\* Either the Part 2 aggregation or the Part 4 aggregation is applied to a
\* product dataset of up to MaxRows rows.
AggInit ==
    /\ IdleEngine
    /\ EmptyStore
    /\ group_df = <<>>
    /\ combined_product_df = <<>>
    /\ hybrid_ops_df = [h \in Hybrids |-> <<>>]
    /\ stage \in {"exported", "p4_aggregate"}
    /\ \E n \in 0 .. MaxRows :
          \E input \in [1 .. n -> AggDates \X AggUnits] :
             /\ product_df =
                   [k \in 1 .. n |-> AggWideRow(k, input[k][1], input[k][2])]
             /\ hybrid_products_df =
                   [h \in Hybrids |->
                      [k \in 1 .. n |->
                         AggLongRow(k, input[k][1], input[k][2], h)]]

AggNext ==
    \/ AggregateOperations
    \/ HybridAggregate

AggSpec == AggInit /\ [][AggNext]_vars

\* ------------------------------------------------------------ the database
\* A table is the set of its rows.  A write runs in a transaction whose
\* state is a record: the rows as the transaction sees them, and whether a
\* statement has raised an error.

\* A schema whose primary keys also include the first measure column.
PrimaryKeyWithMeasure(table_name) ==
    IF table_name = "daily_operations"
    THEN {c_date, c_warehouse_id, c_strategy, c_inbound_units}
    ELSE {c_date, c_product_id, c_warehouse_id, c_strategy, c_demand}

\* The primary_key=True columns of DailyOperations and DailyProducts.
PrimaryKey(table_name) ==
    IF table_name = "daily_operations"
    THEN {c_date, c_warehouse_id, c_strategy}
    ELSE {c_date, c_product_id, c_warehouse_id, c_strategy}

\* Rows r and o have the same values in the given columns.
SameKey(r, o, columns) == \A c \in columns : r[c] = o[c]

\* ForeignKey("dim_products.product_id") of DailyProducts: the product of
\* the row is one of dim_products.
ForeignKeyHolds(row, table_name) ==
    table_name = "daily_products" => row[c_product_id] \in DOMAIN dim_products

\* INSERT of one row: a row with the same primary key is a unique violation,
\* a product that dim_products does not have a foreign key violation.
InsertRow(t, row, table_name) ==
    IF t.error THEN t
    ELSE IF \/ \E r \in t.rows : SameKey(r, row, PrimaryKey(table_name))
            \/ ~ForeignKeyHolds(row, table_name)
         THEN [rows |-> t.rows, error |-> TRUE]
         ELSE [rows |-> t.rows \cup {row}, error |-> FALSE]

\* A plain INSERT, without the ON CONFLICT clause.
InsertOnConflictRaise(t, row, table_name, conflict_cols) ==
    InsertRow(t, row, table_name)

\* INSERT ... ON CONFLICT DO UPDATE: the stored row takes the new values.
InsertOnConflictDoUpdate(t, row, table_name, conflict_cols) ==
    IF t.error THEN t
    ELSE IF \E r \in t.rows : SameKey(r, row, conflict_cols)
         THEN [rows |-> {r \in t.rows : ~SameKey(r, row, conflict_cols)} \cup {row},
               error |-> FALSE]
         ELSE InsertRow(t, row, table_name)

\* insert(table).values(row).on_conflict_do_nothing(index_elements=...).
InsertOnConflictDoNothing(t, row, table_name, conflict_cols) ==
    IF t.error THEN t
    ELSE IF \E r \in t.rows : SameKey(r, row, conflict_cols)
         THEN t
         ELSE InsertRow(t, row, table_name)

RECURSIVE ExecuteInserts(_, _, _, _, _)
\* The loop of upsert_dataframe over the rows of df from row k on; an
\* error ends it.
ExecuteInserts(t, df, k, table_name, conflict_cols) ==
    IF k > Len(df) THEN t
    ELSE ExecuteInserts(
             InsertOnConflictDoNothing(t, df[k], table_name, conflict_cols),
             df, k + 1, table_name, conflict_cols)

\* An upsert_dataframe whose statements are committed one by one: the rows
\* inserted before an error stay.
upsert_dataframe_autocommit(df, table_name, table, conflict_cols) ==
    ExecuteInserts([rows |-> table, error |-> FALSE], df, 1,
                   table_name, conflict_cols)

\* upsert_dataframe on the table with the given rows: the transaction of
\* engine.begin() is committed at the end of the loop, rolled back on an
\* error.
upsert_dataframe(df, table_name, table, conflict_cols) ==
    LET done == ExecuteInserts([rows |-> table, error |-> FALSE], df, 1,
                               table_name, conflict_cols)
    IN IF done.error THEN [rows |-> table, error |-> TRUE] ELSE done

\* session.merge(obj): the row with the primary key of obj is loaded and
\* takes the values of obj (an UPDATE at the flush); without such a row obj
\* is added (an INSERT at the flush).
session_merge(t, obj, table_name) ==
    IF t.error THEN t
    ELSE IF \E r \in t.rows : SameKey(r, obj, PrimaryKey(table_name))
         THEN [rows |-> {r \in t.rows : ~SameKey(r, obj, PrimaryKey(table_name))}
                           \cup {obj},
               error |-> FALSE]
         ELSE InsertRow(t, obj, table_name)

RECURSIVE MergeObjects(_, _, _, _)
MergeObjects(t, df, k, table_name) ==
    IF k > Len(df) THEN t
    ELSE MergeObjects(session_merge(t, df[k], table_name), df, k + 1, table_name)

\* for obj in objects: session.merge(obj), then session.commit().
merge_and_commit(df, table_name, table) ==
    LET done == MergeObjects([rows |-> table, error |-> FALSE], df, 1, table_name)
    IN IF done.error THEN [rows |-> table, error |-> TRUE] ELSE done

\* ------------------------------------------------ Part 3: database loads

\* dim_products.product_class is a string column; "D" stands for any
\* class other than A, B and C.
ProductClasses == {"A", "B", "C", "D"}

StoreDates == {0, 1}

ProductRank(p) == CHOOSE k \in DOMAIN ProductOrder : ProductOrder[k] = p

\* The product row of export v for (date, product, strategy).
ExportedRow(v, d, p, s) ==
    LET dem == 40 * v + 10 * d + ProductRank(p)
    IN IF s = "weekly"
       THEN LongProductRow(d, p, "WH1", s, dem,
                           IF d = 0 THEN 100 * v ELSE 0, dem, 150 - dem, 0)
       ELSE LongProductRow(d, p, "WH1", s, dem, 25 * v, dem - 5, 20, 5)

\* The position of a product row in combined_product_df: the weekly rows
\* before the JIT rows, each by date and product.
ExportRank(row) ==
    ((IF row[c_strategy] = "weekly" THEN 0 ELSE 1) * Cardinality(StoreDates)
        + row[c_date]) * Len(ProductOrder) + ProductRank(row[c_product_id])

RECURSIVE OrderByExportRank(_)
OrderByExportRank(frame) ==
    IF frame = {} THEN <<>>
    ELSE LET first == CHOOSE r \in frame :
                          \A o \in frame : ExportRank(r) <= ExportRank(o)
         IN <<first>> \o OrderByExportRank(frame \ {first})

\* combined_product_df of every export.
ExportedProductFrames ==
    [v \in 1 .. NumVersions |->
        OrderByExportRank({ExportedRow(v, d, p, s) :
                              d \in StoreDates, p \in Products, s \in Strategies})]

ExportedProducts(v) == ExportedProductFrames[v]

\* combined_operations_df of every export: per strategy, the rows of the
\* products summed per (date, warehouse) and the derived metrics, with the
\* large trucks for weekly and the small trucks for JIT.
ExportedOperationFrames ==
    [v \in 1 .. NumVersions |->
        LET OfStrategy(s) ==
                LET IsOf(r) == r[c_strategy] = s
                IN calculate_inbound_shipments(
                       calculate_outbound_shipments(
                           HybridGroupBySum(SelectSeq(ExportedProducts(v), IsOf)),
                           van_capacity),
                       IF s = "weekly" THEN large_truck_capacity
                       ELSE small_truck_capacity)
        IN OfStrategy("weekly") \o OfStrategy("JIT")]

ExportedOperations(v) == ExportedOperationFrames[v]

\* The load of daily_operations: one export's combined_operations_df.
LoadDailyOperations(v) ==
    LET done == merge_and_commit(ExportedOperations(v), "daily_operations",
                                 daily_operations)
    IN /\ daily_operations' = done.rows
       /\ db_error' = done.error
       /\ last_write' = WriteOf("daily_operations", ExportedOperations(v))
       /\ UNCHANGED <<lead_time, demand, day, on_hand_inventory, pending_arrivals,
                      rows, orders, stage, product_df, group_df,
                      combined_product_df, dim_products, daily_products,
                      hybridVars>>

\* The load of daily_products: one export's combined_product_df.
LoadDailyProducts(v) ==
    LET done == merge_and_commit(ExportedProducts(v), "daily_products",
                                 daily_products)
    IN /\ daily_products' = done.rows
       /\ db_error' = done.error
       /\ last_write' = WriteOf("daily_products", ExportedProducts(v))
       /\ UNCHANGED <<lead_time, demand, day, on_hand_inventory, pending_arrivals,
                      rows, orders, stage, product_df, group_df,
                      combined_product_df, dim_products, daily_operations,
                      hybridVars>>

\* ------------------------------------------- Part 4: hybrid strategies

\* A WHERE clause that excludes the other base strategy instead of naming
\* its own.
HybridAWhereNot(product_class, strategy) ==
    \/ product_class = "C" /\ strategy # "JIT"
    \/ product_class \in {"A", "B"} /\ strategy # "weekly"

\* The WHERE clause of hybrid_a_product_query.
HybridAWhere(product_class, strategy) ==
    \/ product_class = "C" /\ strategy = "weekly"
    \/ product_class \in {"A", "B"} /\ strategy = "JIT"

\* The WHERE clause of hybrid_b_product_query.
HybridBWhere(product_class, strategy) ==
    \/ product_class \in {"B", "C"} /\ strategy = "weekly"
    \/ product_class = "A" /\ strategy = "JIT"

\* The position of a row under ORDER BY 1, 2 (date, product_id).
QueryRank(row) == row[c_date] * Len(ProductOrder) + ProductRank(row[c_product_id])

RECURSIVE OrderByQueryRank(_)
OrderByQueryRank(frame) ==
    IF frame = {} THEN <<>>
    ELSE LET first == CHOOSE r \in frame :
                          \A o \in frame : QueryRank(r) <= QueryRank(o)
         IN <<first>> \o OrderByQueryRank(frame \ {first})

\* A hybrid query that keeps the strategy label of the rows it selects.
hybrid_product_query_unlabelled(h) ==
    LET Where(product_class, strategy) ==
            IF h = "Hybrid A" THEN HybridAWhere(product_class, strategy)
            ELSE HybridBWhere(product_class, strategy)
        joined == {dp \in daily_products : dp[c_product_id] \in DOMAIN dim_products}
    IN OrderByQueryRank({dp \in joined :
                            Where(dim_products[dp[c_product_id]], dp[c_strategy])})

\* pd.read_sql_query of the hybrid query h: daily_products joined with
\* dim_products on product_id, the rows the WHERE clause selects, with the
\* strategy column replaced by the hybrid's label.
hybrid_product_query(h) ==
    LET Where(product_class, strategy) ==
            IF h = "Hybrid A" THEN HybridAWhere(product_class, strategy)
            ELSE HybridBWhere(product_class, strategy)
        joined == {dp \in daily_products : dp[c_product_id] \in DOMAIN dim_products}
        selected == {dp \in joined :
                        Where(dim_products[dp[c_product_id]], dp[c_strategy])}
    IN OrderByQueryRank({[dp EXCEPT ![c_strategy] = h] : dp \in selected})

\* The cell that runs both queries.
HybridQueries ==
    /\ stage = "p4_query"
    /\ hybrid_products_df' = [h \in Hybrids |-> hybrid_product_query(h)]
    /\ stage' = "p4_aggregate"
    /\ UNCHANGED <<lead_time, demand, day, on_hand_inventory, pending_arrivals,
                   rows, orders, product_df, group_df, combined_product_df,
                   storeVars, hybrid_ops_df>>

\* The two upsert_dataframe calls of a write cell: the operations, then
\* the products; an error in the first call ends the cell.
WriteHybrid(h, next_stage) ==
    LET ops == upsert_dataframe(hybrid_ops_df[h], "daily_operations",
                                daily_operations,
                                {c_date, c_warehouse_id, c_strategy})
        pro == upsert_dataframe(hybrid_products_df[h], "daily_products",
                                daily_products,
                                {c_date, c_product_id, c_warehouse_id, c_strategy})
    IN /\ daily_operations' = ops.rows
       /\ daily_products' = IF ops.error THEN daily_products ELSE pro.rows
       /\ db_error' = (ops.error \/ pro.error)
       /\ stage' = IF ops.error \/ pro.error THEN stage ELSE next_stage
       /\ last_write' = WriteOf(h, <<hybrid_ops_df[h], hybrid_products_df[h]>>)
       /\ UNCHANGED <<lead_time, demand, day, on_hand_inventory, pending_arrivals,
                      rows, orders, product_df, group_df, combined_product_df,
                      dim_products, hybridVars>>

\* "Write the Hybrid A tables"; the cell can be run again right after it
\* has run.
WriteHybridA ==
    /\ \/ stage = "p4_write_a"
       \/ stage = "p4_write_b" /\ last_write.cell = "Hybrid A"
    /\ WriteHybrid("Hybrid A", "p4_write_b")

\* "And the Hybrid B tables"; the cell can be run again right after it has
\* run, and so can the whole notebook.
WriteHybridB ==
    /\ \/ stage = "p4_write_b"
       \/ stage = "p4_query" /\ last_write.cell = "Hybrid B"
    /\ WriteHybrid("Hybrid B", "p4_query")

\* The database after Part 3 has created the tables and loaded the
\* dimension tables; Part 4 has not run yet.
StoreInit ==
    /\ IdleEngine
    /\ NoFrames
    /\ NoHybrids
    /\ dim_products \in [Products -> ProductClasses]
    /\ daily_products = {}
    /\ daily_operations = {}
    /\ db_error = FALSE
    /\ last_write = NoWrite
    /\ stage = "p4_query"

StoreNext ==
    \/ \E v \in 1 .. NumVersions : LoadDailyOperations(v)
    \/ \E v \in 1 .. NumVersions : LoadDailyProducts(v)
    \/ HybridQueries
    \/ HybridAggregate
    \/ HybridMetrics
    \/ HybridStaffCount
    \/ HybridExpectedErrors
    \/ WriteHybridA
    \/ WriteHybridB

StoreSpec == StoreInit /\ [][StoreNext]_vars

\* ------------------------------------------------ upserts on their own

\* The units of the rows of a batch, and of the rows stored before it.
BatchUnits == {1, 2}

StoredUnits == 3

\* The k-th row of a hybrid product dataframe: date d, product p, u units.
BatchRow(h, d, p, u) == LongProductRow(d, p, "WH1", h, u, u, u, u, 0)

\* The cells of Part 4 between the queries and the writes.
HybridOperationsOf(df) ==
    HybridExpectedErrorsOf(HybridStaffCountOf(
        calculate_inbound_shipments(
            calculate_outbound_shipments(HybridGroupBySum(df), default_van_capacity),
            default_truck_capacity)))

\* The write cells of Part 4 are applied to product dataframes of up to
\* MaxRows rows, of products that dim_products has (P1) or not (P2), with
\* repeated keys or not, on tables that hold the hybrid rows of an earlier
\* run for some of the dates.
UpsertInit ==
    /\ IdleEngine
    /\ NoFrames
    /\ dim_products = [p \in {"P1"} |-> "A"]
    /\ db_error = FALSE
    /\ last_write = NoWrite
    /\ stage = "p4_write_a"
    /\ \E stored_dates \in SUBSET StoreDates :
          LET earlier(h) == OrderByQueryRank({BatchRow(h, d, "P1", StoredUnits) :
                                                d \in stored_dates})
          IN /\ daily_products = UNION {SeqToSet(earlier(h)) : h \in Hybrids}
             /\ daily_operations =
                   UNION {SeqToSet(HybridOperationsOf(earlier(h))) : h \in Hybrids}
    /\ \E n \in 0 .. MaxRows :
          \E input \in [1 .. n -> StoreDates \X Products \X BatchUnits] :
             /\ hybrid_products_df =
                   [h \in Hybrids |->
                      [k \in 1 .. n |->
                         BatchRow(h, input[k][1], input[k][2], input[k][3])]]
             /\ hybrid_ops_df =
                   [h \in Hybrids |->
                      HybridOperationsOf(
                          [k \in 1 .. n |->
                             BatchRow(h, input[k][1], input[k][2], input[k][3])])]

UpsertNext ==
    \/ WriteHybridA
    \/ WriteHybridB

UpsertSpec == UpsertInit /\ [][UpsertNext]_vars

Next ==
    \/ \E i \in Instances : SimulateDay(i)
    \/ ExportProducts
    \/ AggregateOperations
    \/ WideToLong

Spec == Init /\ [][Next]_vars

\* ================================================================== claims

StartingInventory(i) == ProductParams(ProductOf(i)).starting_inventory

\* The inventory level of instance i at the end of the day before row k.
InventoryYesterday(i, k) ==
    IF k = 1 THEN StartingInventory(i) ELSE rows[i][k - 1].inventory_level

RECURSIVE SumOrdered(_, _)
\* Units ordered by instance i on its first n days.
SumOrdered(i, n) ==
    IF n = 0 THEN 0 ELSE SumOrdered(i, n - 1) + orders[i][n]

RECURSIVE SumReceived(_, _)
\* Units received by instance i on its first n days.
SumReceived(i, n) ==
    IF n = 0 THEN 0 ELSE SumReceived(i, n - 1) + rows[i][n].inbound_units

Suffixes == {s_weekly, s_jit}

\* The summed inventory level of a warehouse at the end of the day before
\* operations row g (the starting inventories before the first day).
GroupInventoryYesterday(g, s) ==
    LET before == {h \in DOMAIN group_df :
                     /\ group_df[h][c_warehouse_id] = group_df[g][c_warehouse_id]
                     /\ group_df[h][c_date] = group_df[g][c_date] - 1}
        strategy == IF s = s_weekly THEN "weekly" ELSE "JIT"
        RECURSIVE SumStart(_)
        SumStart(ps) ==
            IF ps = {} THEN 0
            ELSE LET p == CHOOSE q \in ps : TRUE
                 IN StartingInventory(<<p, group_df[g][c_warehouse_id], strategy>>)
                      + SumStart(ps \ {p})
    IN IF before = {} THEN SumStart(Products)
       ELSE group_df[CHOOSE h \in before : TRUE][c_inventory_level \o s]

\* C1: on every simulated day of every instance the emitted inventory level
\* equals yesterday's level (the starting inventory on the first day) plus
\* the inbound units minus the actual outbound of the day, and the summed
\* columns of every operations row satisfy the same balance per warehouse.
C1_InventoryBalance ==
    /\ \A i \in Instances : \A k \in DOMAIN rows[i] :
          rows[i][k].inventory_level =
              InventoryYesterday(i, k) + rows[i][k].inbound_units
                  - rows[i][k].actual_outbound
    /\ stage \in {"aggregated", "long"} =>
          /\ Len(group_df) = NumDays * Cardinality(Warehouses)
          /\ \A g \in DOMAIN group_df : \A s \in Suffixes :
                group_df[g][c_inventory_level \o s] =
                    GroupInventoryYesterday(g, s)
                        + group_df[g][c_inbound_units \o s]
                        - group_df[g][c_orders_fulfilled \o s]

\* C1 witness: operations rows exist and one of them, after the first day,
\* has both units arriving and units leaving under some strategy.
C1_Witness ==
    /\ stage = "aggregated"
    /\ \E g \in DOMAIN group_df : \E s \in Suffixes :
          /\ group_df[g][c_date] > 0
          /\ group_df[g][c_inbound_units \o s] > 0
          /\ group_df[g][c_orders_fulfilled \o s] > 0

\* C2: on-hand inventory is never negative, and neither the inventory level
\* nor the unmet demand of any emitted row is negative.
C2_NeverNegative ==
    \A i \in Instances :
        /\ on_hand_inventory[i] >= 0
        /\ \A k \in DOMAIN rows[i] :
              /\ rows[i][k].inventory_level >= 0
              /\ rows[i][k].unmet_demand >= 0

\* C2 witness: a day on which demand exceeded the stock, leaving no stock.
C2_Witness ==
    \E i \in Instances :
        /\ rows[i] # <<>>
        /\ rows[i][Len(rows[i])].unmet_demand > 0
        /\ on_hand_inventory[i] = 0

\* C3: every emitted row ships the minimum of the demand and the inventory
\* on hand after the day's arrivals, reports as unmet the rest of the demand
\* (the excess of demand over that inventory, or zero), and raises the
\* stockout flag exactly when some demand is unmet.
C3_Fulfilment ==
    \A i \in Instances : \A k \in DOMAIN rows[i] :
        LET r == rows[i][k]
            available == InventoryYesterday(i, k) + r.inbound_units
        IN /\ r.actual_outbound = Min(r.demand, available)
           /\ r.unmet_demand = r.demand - r.actual_outbound
           /\ r.unmet_demand = Max(r.demand - available, 0)
           /\ r.stockout_flag = (r.unmet_demand > 0)

\* C3 witness: a row that follows an arrival and is partly fulfilled, and a
\* row with demand fully met, both emitted.
C3_Witness ==
    /\ \E i \in Instances : \E k \in DOMAIN rows[i] :
          /\ rows[i][k].inbound_units > 0
          /\ rows[i][k].actual_outbound > 0
          /\ rows[i][k].stockout_flag
    /\ \E i \in Instances : \E k \in DOMAIN rows[i] :
          /\ rows[i][k].demand > 0
          /\ ~rows[i][k].stockout_flag

\* Units ordered by instance i before day k and not received by the end of
\* the arrivals of day k.
Outstanding(i, k) == SumOrdered(i, k - 1) - SumReceived(i, k)

\* C4: under the threshold policy a non-zero order is placed on a day if and
\* only if on-hand inventory plus the pending quantity is strictly below the
\* reorder point; otherwise the order quantity is zero.
C4_ThresholdOrders ==
    \A i \in Instances : StrategyOf(i) = "JIT" =>
        \A k \in DOMAIN orders[i] :
            LET position == rows[i][k].inventory_level + Outstanding(i, k)
                point == ProductParams(ProductOf(i)).reorder_point
            IN /\ orders[i][k] >= 0
               /\ (orders[i][k] > 0) <=> (position < point)

\* C4 witness: the threshold policy fired on two consecutive days, and on
\* some day did not fire with the position exactly at the reorder point.
C4_Witness ==
    /\ \E i \in Instances :
          /\ StrategyOf(i) = "JIT"
          /\ \E k \in DOMAIN orders[i] :
                k > 1 /\ orders[i][k - 1] > 0 /\ orders[i][k] > 0
    /\ \E i \in Instances :
          /\ StrategyOf(i) = "JIT"
          /\ \E k \in DOMAIN orders[i] :
                /\ orders[i][k] = 0
                /\ rows[i][k].inventory_level + Outstanding(i, k)
                       = ProductParams(ProductOf(i)).reorder_point

\* C5: under the scheduled policy the order quantity is zero on every day
\* whose day_index is not a multiple of the interval.
C5_ScheduledOrders ==
    \A i \in Instances : StrategyOf(i) = "weekly" =>
        \A k \in DOMAIN orders[i] :
            (k - 1) % ProductParams(ProductOf(i)).interval # 0 => orders[i][k] = 0

\* C5 witness: the scheduled policy ordered nothing on an off-schedule day
\* of stockout, and ordered something on a scheduled day.
C5_Witness ==
    \E i \in Instances :
        /\ StrategyOf(i) = "weekly"
        /\ \E k \in DOMAIN orders[i] :
              /\ (k - 1) % ProductParams(ProductOf(i)).interval # 0
              /\ rows[i][k].stockout_flag
              /\ orders[i][k] = 0
        /\ \E k \in DOMAIN orders[i] :
              /\ (k - 1) % ProductParams(ProductOf(i)).interval = 0
              /\ orders[i][k] > 0

\* Units instance i ordered on the day whose order arrives on the day of row k.
OrderedFor(i, k) ==
    LET n == k - lead_time[ProductOf(i)]
    IN IF n >= 1 THEN orders[i][n] ELSE 0

RECURSIVE SumNotDue(_, _)
\* Units ordered by instance i on its first n days whose arrival day has not
\* been simulated yet.
SumNotDue(i, n) ==
    IF n = 0 THEN 0
    ELSE SumNotDue(i, n - 1)
           + (IF (n - 1) + lead_time[ProductOf(i)] >= day[i]
              THEN orders[i][n] ELSE 0)

\* C6: the inbound units of every day are exactly the quantity ordered
\* lead_time days earlier, and the pending arrivals hold exactly the orders
\* whose arrival day has not been simulated yet: every order is received
\* once, on day N + lead_time, and leaves pending_arrivals then.
C6_OrdersArriveOnce ==
    \A i \in Instances :
        /\ \A k \in DOMAIN rows[i] : rows[i][k].inbound_units = OrderedFor(i, k)
        /\ SumQuantity(pending_arrivals[i]) = SumNotDue(i, Len(orders[i]))

\* C7: with a lead time of 0 an order is received on the day it is decided:
\* it is counted in that day's inbound units, was on hand for that day's
\* demand, and nothing is left in pending_arrivals after the day.
C7_SameDayArrival ==
    \A i \in Instances : lead_time[ProductOf(i)] = 0 =>
        /\ pending_arrivals[i] = <<>>
        /\ \A k \in DOMAIN rows[i] :
              /\ rows[i][k].inbound_units = orders[i][k]
              /\ rows[i][k].actual_outbound =
                     Min(rows[i][k].demand, InventoryYesterday(i, k) + orders[i][k])

SharedColumns == {c_date, c_product_id, c_warehouse_id, c_demand}

\* The rows of the long product dataset of one strategy for the key of the
\* wide row r.
LongRows(r, strategy) ==
    {j \in DOMAIN combined_product_df :
        LET l == combined_product_df[j]
        IN /\ l[c_strategy] = strategy
           /\ l[c_date] = r[c_date]
           /\ l[c_product_id] = r[c_product_id]
           /\ l[c_warehouse_id] = r[c_warehouse_id]}

\* C8: after the reshaping the long product dataset holds, for every (date,
\* product, warehouse) of the wide dataset, exactly one weekly row and one
\* JIT row, both carrying the demand of the wide row; the dataset holds no
\* other rows, and each row has the shared, the per-strategy and the
\* strategy columns only.
C8_SameDemand ==
    stage = "long" =>
        /\ Len(combined_product_df) = 2 * Len(product_df)
        /\ \A j \in DOMAIN combined_product_df :
              DOMAIN combined_product_df[j] =
                  SharedColumns \cup ProductMeasures \cup {c_strategy}
        /\ \A k \in DOMAIN product_df :
              LET weekly == LongRows(product_df[k], "weekly")
                  jit    == LongRows(product_df[k], "JIT")
              IN /\ Cardinality(weekly) = 1
                 /\ Cardinality(jit) = 1
                 /\ \A j \in weekly \cup jit :
                       combined_product_df[j][c_demand] = product_df[k][c_demand]

\* C8 witness: a key with positive demand whose weekly and JIT rows of the
\* long dataset end the day with different inventory levels.
C8_Witness ==
    /\ stage = "long"
    /\ \E k \in DOMAIN product_df :
          /\ product_df[k][c_demand] > 0
          /\ \E a \in LongRows(product_df[k], "weekly") :
             \E b \in LongRows(product_df[k], "JIT") :
                combined_product_df[a][c_inventory_level]
                    # combined_product_df[b][c_inventory_level]

RECURSIVE RunAlone(_, _)
\* The InventoryState and the rows of instance i after n days simulated on
\* its own, from its parameters and its demand sequence.
RunAlone(i, n) ==
    IF n = 0
    THEN [on_hand |-> StartingInventory(i), pending |-> <<>>, rows |-> <<>>]
    ELSE LET prev == RunAlone(i, n - 1)
             t == DayTransition(i, n - 1, prev.on_hand, prev.pending,
                                demand[<<ProductOf(i), WarehouseOf(i)>>][n],
                                lead_time[ProductOf(i)])
         IN [on_hand |-> t.on_hand, pending |-> t.pending,
             rows |-> Append(prev.rows, t.row)]

\* C9: however the day-steps of the instances are interleaved, every
\* instance has the rows, the inventory and the pending arrivals it has when
\* simulated alone over the same days.
C9_Independence ==
    \A i \in Instances :
        LET alone == RunAlone(i, day[i])
        IN /\ rows[i] = alone.rows
           /\ on_hand_inventory[i] = alone.on_hand
           /\ pending_arrivals[i] = alone.pending

\* C9 witness: the instances are at different days, one product has just
\* had a stockout and another product has stock.
C9_Witness ==
    \E i, j \in Instances :
        /\ ProductOf(i) # ProductOf(j)
        /\ day[i] > 0
        /\ day[j] > 0
        /\ day[i] # day[j]
        /\ rows[i][Len(rows[i])].stockout_flag
        /\ on_hand_inventory[j] > 0

\* Every instance has one row per date, in increasing date order.
RowsInDateOrder ==
    \A i \in Instances :
        /\ Len(rows[i]) = day[i]
        /\ \A k \in DOMAIN rows[i] :
              /\ rows[i][k].date = k - 1
              /\ rows[i][k].product_id = ProductOf(i)
              /\ rows[i][k].warehouse_id = WarehouseOf(i)
              /\ rows[i][k].strategy = StrategyOf(i)

\* The driver has ended with the product-level dataset complete.
DriverDone ==
    /\ stage # "simulate"
    /\ \A i \in Instances : Len(rows[i]) = NumDays
    /\ Len(product_df) = NumDays * Cardinality(Products) * Cardinality(Warehouses)

RECURSIVE DaysLeft(_)
\* The day-steps the instances in is have still to take.
DaysLeft(is) ==
    IF is = {} THEN 0
    ELSE LET i == CHOOSE j \in is : TRUE
         IN (NumDays - day[i]) + DaysLeft(is \ {i})

\* The steps the driver has still to take: the day-steps and the export.
DriverStepsLeft ==
    IF stage = "simulate" THEN DaysLeft(Instances) + 1 ELSE 0

\* A step of the driver.
DriverStep == (\E i \in Instances : SimulateDay(i)) \/ ExportProducts

\* C10: the driver terminates (until it has ended it can always take a step,
\* and each of its steps leaves strictly fewer steps to take, of a finite
\* number), and when it has ended every instance has exactly one row for
\* every date of the range; the rows of an instance are always in strictly
\* increasing date order with no date skipped or repeated.
C10_Terminates ==
    /\ [](stage = "simulate" => ENABLED DriverStep)
    /\ [][stage = "simulate" =>
            /\ DriverStepsLeft >= 0
            /\ DriverStepsLeft' < DriverStepsLeft]_vars
    /\ [](stage # "simulate" => DriverDone)
    /\ []RowsInDateOrder

\* C10 witness: the driver has ended with all rows emitted.
C10_Witness ==
    /\ DriverDone
    /\ RowsInDateOrder

\* ------------------------------------------------------------------- C11

\* The scenario instance and its constant daily demand.
ScenarioInstance == <<"S1", "WH1", "JIT">>

ScenarioDemand == 30

\* The first k days of the scenario instance all had the scenario's demand.
ConstantDemand(k) ==
    \A j \in 1 .. k : rows[ScenarioInstance][j].demand = ScenarioDemand

\* C11: threshold policy with reorder_point 50, reorder_quantity 200, lead
\* time 2, starting inventory 200 and a constant daily demand of 30: the
\* inventory is 170 after day 1 and 140 after day 2; no order is placed on
\* days 1 to 5, where the inventory is at least 50 (exactly 50 on day 5); the
\* first order, of 200 units, is placed on day 6 (inventory 20); nothing is
\* received before day 8, and the 200 units are received on day 8.
C11_ThresholdScenario ==
    stage = "scenario" =>
        LET i == ScenarioInstance
            params == ProductParams(ProductOf(i))
        IN /\ params.reorder_point = 50
           /\ params.reorder_quantity = 200
           /\ params.starting_inventory = 200
           /\ lead_time[ProductOf(i)] = 2
           /\ \A k \in DOMAIN rows[i] :
                 ConstantDemand(k) =>
                    /\ k = 1 => rows[i][k].inventory_level = 170
                    /\ k = 2 => rows[i][k].inventory_level = 140
                    /\ k <= 5 => /\ rows[i][k].inventory_level >= 50
                                 /\ orders[i][k] = 0
                    /\ k = 5 => rows[i][k].inventory_level = 50
                    /\ k = 6 => /\ rows[i][k].inventory_level = 20
                                /\ orders[i][k] = 200
                    /\ k <= 7 => rows[i][k].inbound_units = 0
                    /\ k = 8 => rows[i][k].inbound_units = 200

\* C11 witness: eight days of demand 30 have been simulated and the order of
\* day 6 has been received on day 8.
C11_Witness ==
    /\ stage = "scenario"
    /\ Len(rows[ScenarioInstance]) >= 8
    /\ ConstantDemand(8)
    /\ orders[ScenarioInstance][6] = 200
    /\ rows[ScenarioInstance][8].inbound_units = 200

\* ------------------------------------------------------------------- C12

\* No two rows of the table have the same values in the key columns.
UniqueKeys(table, columns) ==
    \A r \in table : \A o \in table : SameKey(r, o, columns) => r = o

\* C12: after any sequence of Part 3 loads and Part 4 upserts,
\* daily_products holds at most one row per (date, product_id,
\* warehouse_id, strategy) and daily_operations at most one row per (date,
\* warehouse_id, strategy).
C12_OneRowPerKey ==
    /\ UniqueKeys(daily_products,
                  {c_date, c_product_id, c_warehouse_id, c_strategy})
    /\ UniqueKeys(daily_operations, {c_date, c_warehouse_id, c_strategy})

\* C12 witness: both tables hold base rows and hybrid rows, the base rows
\* of the second export having been loaded over those of the first, from
\* which the stored hybrid rows were taken.
C12_Witness ==
    /\ ExportedRow(2, 0, "P1", "JIT") \in daily_products
    /\ [ExportedRow(1, 0, "P1", "JIT") EXCEPT ![c_strategy] = "Hybrid A"]
           \in daily_products
    /\ \E r \in daily_operations : r[c_strategy] = "Hybrid B"
    /\ \E r \in daily_operations : r = ExportedOperations(2)[1]

\* ------------------------------------------------------------------- C13

\* C13: a write cell (a Part 3 merge-and-commit load, or the upserts of a
\* hybrid) that is run a second time with the same batch raises no error
\* and leaves both tables exactly as they were after the first run.
C13_Idempotent ==
    [][last_write'.repeated =>
          /\ daily_products' = daily_products
          /\ daily_operations' = daily_operations
          /\ ~db_error']_vars

\* C13 witness: a hybrid's upserts have been run twice in a row with the
\* same non-empty batch.
C13_Witness ==
    /\ last_write.repeated
    /\ last_write.cell \in Hybrids
    /\ last_write.batch[1] # <<>>
    /\ last_write.batch[2] # <<>>
    /\ ~db_error

\* ------------------------------------------------------------------- C14

\* The rows of the table that have the key of a row of the batch.
StoredUnderKeysOf(table, batch, table_name) ==
    {r \in table :
        \E k \in DOMAIN batch : SameKey(r, batch[k], PrimaryKey(table_name))}

\* C14: a Part 3 load raises no error and leaves every stored row whose
\* composite key is the key of an incoming row as it was, whatever the
\* incoming values.
C14_LoadIgnoresExisting ==
    [][last_write'.cell \in {"daily_operations", "daily_products"} =>
          /\ ~db_error'
          /\ StoredUnderKeysOf(daily_products, last_write'.batch,
                               "daily_products") \subseteq daily_products'
          /\ StoredUnderKeysOf(daily_operations, last_write'.batch,
                               "daily_operations") \subseteq daily_operations'
      ]_vars

\* ------------------------------------------------------------------- C15

\* The rows of a frame (a set of rows) for one (date, product, warehouse).
RowsFor(frame, d, p, w) ==
    {r \in frame : /\ r[c_date] = d
                   /\ r[c_product_id] = p
                   /\ r[c_warehouse_id] = w}

\* Hybrid h, given as the set of its rows, holds for (d, p, w) exactly the
\* base row of the given strategy, relabelled.
TakenFrom(hybrid, h, strategy, d, p, w) ==
    RowsFor(hybrid, d, p, w) =
        {[r EXCEPT ![c_strategy] = h] :
            r \in {b \in RowsFor(daily_products, d, p, w) :
                      b[c_strategy] = strategy}}

\* C15: when the hybrid queries run, for every (date, product, warehouse)
\* that has both base rows Hybrid A gets exactly one row, the JIT row for
\* the classes A and B and the weekly row for class C, and Hybrid B gets
\* exactly one row, the JIT row for class A and the weekly row for the
\* classes B and C.
C15_HybridSelection ==
    [][stage = "p4_query" /\ stage' = "p4_aggregate" =>
          \A d \in StoreDates, p \in Products, w \in Warehouses :
              LET base == RowsFor(daily_products, d, p, w)
                  a    == SeqToSet(hybrid_products_df'["Hybrid A"])
                  b    == SeqToSet(hybrid_products_df'["Hybrid B"])
                  cls  == dim_products[p]
              IN (/\ \E r \in base : r[c_strategy] = "weekly"
                  /\ \E r \in base : r[c_strategy] = "JIT")
                 => /\ Cardinality(RowsFor(a, d, p, w)) = 1
                    /\ Cardinality(RowsFor(b, d, p, w)) = 1
                    /\ cls \in {"A", "B"} => TakenFrom(a, "Hybrid A", "JIT", d, p, w)
                    /\ cls = "C" => TakenFrom(a, "Hybrid A", "weekly", d, p, w)
                    /\ cls = "A" => TakenFrom(b, "Hybrid B", "JIT", d, p, w)
                    /\ cls \in {"B", "C"} => TakenFrom(b, "Hybrid B", "weekly", d, p, w)
      ]_vars

\* ------------------------------------------------------------------- C16

\* A product has a class the hybrid mapping does not know.
UnknownClass == \E p \in DOMAIN dim_products : dim_products[p] \notin {"A", "B", "C"}

\* C16: with a product of unknown class the Part 4 run stops before any
\* hybrid row is computed or written: the hybrid dataframes stay empty and
\* the tables hold no hybrid row.
C16_UnknownClassFatal ==
    UnknownClass =>
        /\ \A h \in Hybrids : /\ hybrid_products_df[h] = <<>>
                               /\ hybrid_ops_df[h] = <<>>
        /\ \A r \in daily_products \cup daily_operations :
              r[c_strategy] \notin Hybrids

\* ------------------------------------------------------------------- C17

\* The rows of df at the positions listed in order.
RowsAt(df, order) == [k \in DOMAIN order |-> df[order[k]]]

\* The orders in which the rows of df can be listed.
RowOrders(df) ==
    {order \in [DOMAIN df -> DOMAIN df] :
        \A j \in DOMAIN df : \A k \in DOMAIN df : order[j] = order[k] => j = k}

RECURSIVE SumOver(_, _, _)
\* The sum of column c over the rows of df at the positions in the set.
SumOver(df, positions, c) ==
    IF positions = {} THEN 0
    ELSE LET k == CHOOSE j \in positions : TRUE
         IN df[k][c] + SumOver(df, positions \ {k}, c)

\* The value of column c in the row of the aggregate ops for the given
\* values of the key columns; 0 when ops has no such group.
GroupValue(ops, key_columns, key_row, c) ==
    LET at == {g \in DOMAIN ops : SameKey(ops[g], key_row, key_columns)}
    IN IF at = {} THEN 0 ELSE ops[CHOOSE g \in at : TRUE][c]

\* The four sums of a hybrid operations row and the product columns they
\* are the sums of.
HybridSummed ==
    {<<c_inbound_units, c_inbound_units>>,
     <<c_orders_fulfilled, c_actual_outbound>>,
     <<c_inventory_level, c_inventory_level>>,
     <<c_missed_sales, c_unmet_demand>>}

\* The Part 2 aggregation of a wide product dataset.
Part2Aggregate(df) ==
    RenameOperations(GroupBySum(SelectColumns(df, selected_columns)))

\* The sums of a Part 2 operations row and the product columns they are
\* the sums of.
Part2Summed ==
    {<<RenamedOperation(m \o s), m \o s>> :
        m \in SummedMeasures, s \in {s_weekly, s_jit}}

\* ops is the aggregate of df by the key columns: one row per group of df,
\* each sum taken over exactly the rows of the group.
IsAggregateOf(ops, df, key_columns, summed) ==
    /\ \A k \in DOMAIN df : \E g \in DOMAIN ops : SameKey(ops[g], df[k], key_columns)
    /\ \A g \in DOMAIN ops :
          /\ \E k \in DOMAIN df : SameKey(ops[g], df[k], key_columns)
          /\ \A o \in DOMAIN ops : SameKey(ops[g], ops[o], key_columns) => g = o
          /\ \A cs \in summed :
                /\ cs[1] \in DOMAIN ops[g]
                /\ ops[g][cs[1]] =
                      SumOver(df, {k \in DOMAIN df :
                                      SameKey(ops[g], df[k], key_columns)}, cs[2])

\* C17: the aggregate holds one row per (date, warehouse, strategy) group
\* with the sums of inbound_units, actual_outbound, inventory_level and
\* unmet_demand over exactly the product rows of the group; aggregating
\* the rows in any other order gives the same aggregate, and for any split
\* of the rows into two parts every sum is the sum of the two parts' sums.
C17_AggregationSums ==
    /\ stage = "p4_metrics" =>
          \A h \in Hybrids :
             LET df  == hybrid_products_df[h]
                 ops == hybrid_ops_df[h]
                 key == {c_date, c_warehouse_id, c_strategy}
             IN /\ IsAggregateOf(ops, df, key, HybridSummed)
                /\ \A order \in RowOrders(df) :
                      /\ HybridGroupBySum(RowsAt(df, order)) = ops
                      /\ \A j \in 0 .. Len(df) :
                            LET one == HybridGroupBySum(
                                           RowsAt(df, SubSeq(order, 1, j)))
                                two == HybridGroupBySum(
                                           RowsAt(df, SubSeq(order, j + 1, Len(df))))
                            IN \A g \in DOMAIN ops : \A cs \in HybridSummed :
                                  ops[g][cs[1]] =
                                      GroupValue(one, key, ops[g], cs[1])
                                        + GroupValue(two, key, ops[g], cs[1])
    /\ stage = "aggregated" =>
          LET df  == product_df
              ops == group_df
              key == {c_date, c_warehouse_id}
          IN /\ IsAggregateOf(ops, df, key, Part2Summed)
             /\ \A order \in RowOrders(df) :
                   /\ Part2Aggregate(RowsAt(df, order)) = ops
                   /\ \A j \in 0 .. Len(df) :
                         LET one == Part2Aggregate(RowsAt(df, SubSeq(order, 1, j)))
                             two == Part2Aggregate(
                                        RowsAt(df, SubSeq(order, j + 1, Len(df))))
                         IN \A g \in DOMAIN ops : \A cs \in Part2Summed :
                               ops[g][cs[1]] =
                                   GroupValue(one, key, ops[g], cs[1])
                                     + GroupValue(two, key, ops[g], cs[1])

\* C17 witness: a hybrid dataframe of three product rows, two of them of
\* the same date with different units, has been aggregated into two groups.
C17_Witness ==
    /\ stage = "p4_metrics"
    /\ LET df == hybrid_products_df["Hybrid A"]
       IN /\ Len(df) = 3
          /\ df[1][c_date] = df[3][c_date]
          /\ df[1][c_date] # df[2][c_date]
          /\ df[1][c_inbound_units] # df[3][c_inbound_units]
          /\ df[3][c_inbound_units] > 0
    /\ Len(hybrid_ops_df["Hybrid A"]) = 2

\* ------------------------------------------------------------------- C18

\* The derived operations rows: the Part 2 row once for each strategy, with
\* the columns of the strategy under their unsuffixed names, and the rows of
\* the hybrids.  A column that has not been computed yet is absent.
WideAs(s) ==
    LET row == group_df[1]
        named == {c \in DOMAIN row : EndsWith(c, s)}
    IN [c \in {Replace(o, s) : o \in named} |->
          row[CHOOSE o \in named : Replace(o, s) = c]]

DerivedRows ==
    (IF stage \in {"p2_outbound", "p2_inbound", "p2_staff", "p2_errors",
                   "p4_aggregate", "p4_metrics", "p4_staff", "p4_errors",
                   "p4_write_a"} /\ group_df # <<>>
     THEN {WideAs(s_weekly), WideAs(s_jit)} ELSE {})
      \cup UNION {SeqToSet(hybrid_ops_df[h]) : h \in Hybrids}

\* C18: outbound_shipments is the least n with n * 100 >= orders_fulfilled;
\* for orders_fulfilled > 0 van_utilization is orders_fulfilled /
\* (outbound_shipments * 100), lies in (0, 1] and is 1 exactly when
\* orders_fulfilled is a multiple of 100; 223 orders give 3 shipments and
\* a utilization of 223/300.
C18_OutboundShipments ==
    \A row \in DerivedRows :
        c_outbound_shipments \in DOMAIN row =>
            LET fulfilled == row[c_orders_fulfilled]
                n      == row[c_outbound_shipments]
                u      == row[c_van_utilization]
            IN /\ van_capacity = 100
               /\ default_van_capacity = 100
               /\ n >= 0
               /\ n * 100 >= fulfilled
               /\ n > 0 => (n - 1) * 100 < fulfilled
               /\ fulfilled > 0 =>
                     /\ u = Divide(fulfilled, n * 100)
                     /\ u.den > 0
                     /\ 0 < u.num
                     /\ u.num <= u.den
                     /\ (u.num = u.den) <=> (fulfilled % 100 = 0)
               /\ fulfilled = 223 => n = 3 /\ u = Divide(223, 300)

\* C18 witness: 223 fulfilled orders, for which the outbound shipments
\* have been computed under Part 2 and under the hybrids.
C18_Witness ==
    /\ \E row \in DerivedRows :
          /\ c_strategy \notin DOMAIN row
          /\ c_outbound_shipments \in DOMAIN row
          /\ row[c_orders_fulfilled] = 223
    /\ \E row \in DerivedRows :
          /\ c_strategy \in DOMAIN row
          /\ c_outbound_shipments \in DOMAIN row
          /\ row[c_orders_fulfilled] = 223

\* ------------------------------------------------------------------- C19

\* C19: with no fulfilled orders outbound_shipments is 0 and
\* van_utilization is a defined value, and with no inbound units
\* truck_utilization is a defined value: no operations row holds the
\* result of 0 / 0.
C19_NoUndefinedRatio ==
    \A row \in DerivedRows :
        /\ (c_outbound_shipments \in DOMAIN row /\ row[c_orders_fulfilled] = 0) =>
              /\ row[c_outbound_shipments] = 0
              /\ ~IsNaN(row[c_van_utilization])
        /\ (c_inbound_shipments \in DOMAIN row /\ row[c_inbound_units] = 0) =>
              ~IsNaN(row[c_truck_utilization])

\* ------------------------------------------------------------------- C20

\* n is the least integer with n * capacity >= units.
IsCeiling(n, units, capacity) ==
    /\ n >= 0
    /\ n * capacity >= units
    /\ n > 0 => (n - 1) * capacity < units

\* C20: inbound_shipments is the ceiling of inbound_units over the truck
\* capacity of the strategy: 1000 for weekly, 500 for JIT, and 500 for both
\* hybrids, applied to the inbound units of the day summed over all the
\* product rows of the hybrid.
C20_InboundShipments ==
    /\ (stage \in {"p2_staff", "p2_errors", "p4_aggregate", "p4_metrics",
                   "p4_staff", "p4_errors", "p4_write_a"} /\ group_df # <<>>) =>
          /\ IsCeiling(WideAs(s_weekly)[c_inbound_shipments],
                       WideAs(s_weekly)[c_inbound_units], 1000)
          /\ IsCeiling(WideAs(s_jit)[c_inbound_shipments],
                       WideAs(s_jit)[c_inbound_units], 500)
    /\ stage = "p4_write_a" =>
          \A h \in Hybrids : \A g \in DOMAIN hybrid_ops_df[h] :
              LET row == hybrid_ops_df[h][g]
                  df  == hybrid_products_df[h]
              IN /\ row[c_inbound_units] =
                        SumOver(df, {k \in DOMAIN df :
                                        GroupKey(df[k]) = GroupKey(row)},
                                c_inbound_units)
                 /\ IsCeiling(row[c_inbound_shipments], row[c_inbound_units], 500)

\* C20 witness: 701 inbound units under Part 2 (one large truck, two small
\* trucks) and 1001 units summed over two products under a hybrid (three
\* small trucks).
C20_Witness ==
    /\ stage = "p4_write_a"
    /\ WideAs(s_weekly)[c_inbound_units] = 701
    /\ WideAs(s_weekly)[c_inbound_shipments] = 1
    /\ WideAs(s_jit)[c_inbound_shipments] = 2
    /\ \E row \in SeqToSet(hybrid_ops_df["Hybrid B"]) :
          /\ row[c_inbound_units] = 1001
          /\ row[c_inbound_shipments] = 3
    /\ Len(hybrid_products_df["Hybrid B"]) = 2
    /\ hybrid_products_df["Hybrid B"][2][c_inbound_units] = 300

\* The derived rows that carry column c.
RowsWith(c) == {row \in DerivedRows : c \in DOMAIN row}

\* C21: for every orders_fulfilled >= 0 the staff count is
\* min(max(floor(orders_fulfilled / 50), 2), 5): with q the integer such
\* that 50 * q <= orders_fulfilled < 50 * (q + 1), it is 2 when q < 2, 5
\* when q > 5 and q otherwise; it always lies in 2 .. 5, is 2 for every
\* orders_fulfilled below 150 and 5 for every orders_fulfilled of 250 or
\* more.
C21_StaffCount ==
    \A row \in RowsWith(c_staff_count) :
        LET fulfilled == row[c_orders_fulfilled]
            q == fulfilled \div 50
            staff == row[c_staff_count]
        IN /\ fulfilled >= 0
           /\ 50 * q <= fulfilled /\ fulfilled < 50 * (q + 1)
           /\ staff = (IF q < 2 THEN 2 ELSE IF q > 5 THEN 5 ELSE q)
           /\ staff \in 2 .. 5
           /\ fulfilled < 150 => staff = 2
           /\ fulfilled >= 250 => staff = 5

\* C21 witness: the staff cells of both parts have given 2 workers to a
\* day with 0 fulfilled orders, under both strategies and both hybrids.
C21_Witness ==
    /\ stage = "p4_write_a"
    /\ Cardinality(RowsWith(c_staff_count)) >= 3
    /\ \A row \in DerivedRows :
          /\ c_staff_count \in DOMAIN row
          /\ row[c_orders_fulfilled] = 0
          /\ row[c_staff_count] = 2

\* The rows the error cells have been applied to, each as its fulfilled
\* orders, its staff count and its errors, with the place it stands at:
\* the weekly and the JIT columns of the Part 2 row, and the hybrid rows.
ErrorRows ==
    (IF group_df # <<>>
     THEN {[place |-> s, fulfilled |-> group_df[1][c_orders_fulfilled \o s],
            staff |-> group_df[1][c_staff_count \o s],
            errors |-> group_df[1][c_errors \o s]] :
              s \in {p \in Suffixes : c_errors \o p \in DOMAIN group_df[1]}}
     ELSE {})
      \cup {[place |-> h, fulfilled |-> hybrid_ops_df[h][1][c_orders_fulfilled],
             staff |-> hybrid_ops_df[h][1][c_staff_count],
             errors |-> hybrid_ops_df[h][1][c_errors]] :
               h \in {p \in Hybrids :
                         /\ hybrid_ops_df[p] # <<>>
                         /\ c_errors \in DOMAIN hybrid_ops_df[p][1]}}

\* C22: determine_expected_errors returns 0 when orders_fulfilled = 0 or
\* staff_count = 0, and otherwise the integer e with
\* e <= min(orders_fulfilled^2 / (5000 * staff_count), orders_fulfilled / 20)
\* < e + 1, for every orders_fulfilled >= 0 and staff_count >= 0.
C22_ExpectedErrors ==
    \A row \in ErrorRows :
        LET e == row.errors
        IN /\ row.fulfilled >= 0 /\ row.staff >= 0
           /\ (row.fulfilled = 0 \/ row.staff = 0) => e = 0
           /\ (row.fulfilled > 0 /\ row.staff > 0) =>
                 /\ e * 5000 * row.staff <= row.fulfilled * row.fulfilled
                 /\ e * 20 <= row.fulfilled
                 /\ \/ (e + 1) * 5000 * row.staff > row.fulfilled * row.fulfilled
                    \/ (e + 1) * 20 > row.fulfilled

\* C22 witness: the error cells of Part 2 have given 15 errors to 300 orders
\* of one worker (the 5% cap; uncapped it would be 18), and 0 errors to 302
\* orders and no staff.
C22_Witness ==
    /\ [place |-> s_weekly, fulfilled |-> 300, staff |-> 1, errors |-> 15]
          \in ErrorRows
    /\ [place |-> s_jit, fulfilled |-> 302, staff |-> 0, errors |-> 0]
          \in ErrorRows

\* C23: for a fixed staff count the expected errors are non-decreasing in
\* the fulfilled orders, and for fixed fulfilled orders they are never
\* larger with more staff.
C23_Monotone ==
    \A r \in ErrorRows : \A o \in ErrorRows :
        /\ (r.staff = o.staff /\ r.fulfilled <= o.fulfilled) => r.errors <= o.errors
        /\ (r.fulfilled = o.fulfilled /\ r.staff <= o.staff) => r.errors >= o.errors

\* C23 as amended: for every fixed staff count the expected errors are
\* non-decreasing in the fulfilled orders; for fixed fulfilled orders they
\* are never larger with more staff among the staff counts of at least 1;
\* with no staff at all they are 0.
C23_MonotoneWithStaff ==
    \A r \in ErrorRows : \A o \in ErrorRows :
        /\ (r.staff = o.staff /\ r.fulfilled <= o.fulfilled) => r.errors <= o.errors
        /\ (r.fulfilled = o.fulfilled /\ 1 <= r.staff /\ r.staff <= o.staff) =>
              r.errors >= o.errors
        /\ r.staff = 0 => r.errors = 0

\* C23 witness: 300 fulfilled orders give 15 errors with one worker and 9
\* with two; none with no worker.
C23_Witness ==
    /\ [place |-> "Hybrid A", fulfilled |-> 300, staff |-> 1, errors |-> 15]
          \in ErrorRows
    /\ [place |-> "Hybrid B", fulfilled |-> 300, staff |-> 2, errors |-> 9]
          \in ErrorRows

\* C24: the expected errors never exceed 5% of the fulfilled orders, for
\* every number of orders and every staff count: 20 * errors <=
\* orders_fulfilled.
C24_ErrorCap ==
    \A row \in ErrorRows :
        /\ 0 <= row.errors
        /\ 20 * row.errors <= row.fulfilled

\* C24 witness: 500 fulfilled orders of one worker, whose uncapped rate of
\* 10% would give 50 errors, give exactly 5%: 25 errors.
C24_Witness ==
    \E row \in ErrorRows :
        /\ row.place = "Hybrid A"
        /\ row.fulfilled = 500
        /\ row.staff = 1
        /\ row.errors = 25
        /\ row.fulfilled > 250 * row.staff

\* The staff count the staff cell gives to a day with n fulfilled orders.
PipelineStaff(n) == IF n < 150 THEN 2 ELSE IF n >= 250 THEN 5 ELSE n \div 50

\* C29: where the staff count of a row is the one computed from its own
\* fulfilled orders, a warehouse day with more fulfilled orders never gets
\* fewer expected errors than one with fewer.
C29_PipelineMonotone ==
    \A r \in ErrorRows : \A o \in ErrorRows :
        (/\ r.staff = PipelineStaff(r.fulfilled)
         /\ o.staff = PipelineStaff(o.fulfilled)
         /\ r.fulfilled <= o.fulfilled) => r.errors <= o.errors

\* C29 as amended: where the staff count of a row is the one computed from
\* its own fulfilled orders, the expected errors are non-decreasing in the
\* fulfilled orders as long as the staff count is the same; a day with more
\* orders gets fewer errors only when its staff count is larger, across 150
\* or 250 orders, and then one error fewer: 2 errors for 149 orders and 1
\* for 150, 3 errors for 249 orders and 2 for 250.
C29_MonotoneWithinStaff ==
    \A r \in ErrorRows : \A o \in ErrorRows :
        (/\ r.staff = PipelineStaff(r.fulfilled)
         /\ o.staff = PipelineStaff(o.fulfilled)
         /\ r.fulfilled <= o.fulfilled) =>
            /\ r.staff = o.staff => r.errors <= o.errors
            /\ r.errors > o.errors =>
                  /\ r.staff < o.staff
                  /\ r.errors = o.errors + 1
                  /\ \/ r.fulfilled < 150 /\ o.fulfilled >= 150
                     \/ r.fulfilled < 250 /\ o.fulfilled >= 250
            /\ (r.fulfilled = 149 /\ o.fulfilled = 150) =>
                  (r.errors = 2 /\ o.errors = 1)
            /\ (r.fulfilled = 249 /\ o.fulfilled = 250) =>
                  (r.errors = 3 /\ o.errors = 2)

\* C29 witness: the staff and error cells of Part 2 have run on a day with
\* 273 fulfilled orders under weekly and 274 under JIT: five workers each,
\* 2 and 3 errors.
C29_Witness ==
    /\ stage = "p4_aggregate"
    /\ [place |-> s_weekly, fulfilled |-> 273, staff |-> 5, errors |-> 2]
          \in ErrorRows
    /\ [place |-> s_jit, fulfilled |-> 274, staff |-> 5, errors |-> 3]
          \in ErrorRows

\* The conflict columns of the two upsert_dataframe calls.
OperationKey == {c_date, c_warehouse_id, c_strategy}

ProductKey == {c_date, c_product_id, c_warehouse_id, c_strategy}

\* The stored rows are all kept as they are, whether a row of the batch has
\* their key or not, and every other row of the table comes from the batch
\* and has a key no stored row had.
StoredRowsKept(before, after, df, columns) ==
    /\ before \subseteq after
    /\ after \subseteq before \cup SeqToSet(df)
    /\ \A r \in after \ before : \A o \in before : ~SameKey(r, o, columns)

\* Every key of the batch that no stored row had is in the table, with the
\* values of the first row of the batch that has it.
NewKeysInserted(before, after, df, columns) ==
    \A k \in DOMAIN df :
        (\A o \in before : ~SameKey(o, df[k], columns)) =>
            LET first == CHOOSE j \in DOMAIN df :
                            /\ SameKey(df[j], df[k], columns)
                            /\ \A l \in 1 .. j - 1 : ~SameKey(df[l], df[k], columns)
            IN /\ df[first] \in after
               /\ \A r \in after : SameKey(r, df[k], columns) => r = df[first]

\* C25: upsert_dataframe is first-writer-wins.  In every write of a hybrid
\* the rows stored before stay unchanged in every column, also those whose
\* key a row of the batch has with other values; no error is raised for
\* them (a batch all of whose products dim_products has raises none); the
\* rows with new keys are inserted; nothing else changes.
C25_FirstWriterWins ==
    [][LET ops == last_write'.batch[1]
           pro == last_write'.batch[2]
       IN last_write'.cell \in Hybrids =>
             /\ StoredRowsKept(daily_operations, daily_operations', ops, OperationKey)
             /\ StoredRowsKept(daily_products, daily_products', pro, ProductKey)
             /\ NewKeysInserted(daily_operations, daily_operations', ops, OperationKey)
             /\ (\A k \in DOMAIN pro : pro[k][c_product_id] \in DOMAIN dim_products) =>
                   /\ ~db_error'
                   /\ NewKeysInserted(daily_products, daily_products', pro, ProductKey)
      ]_vars

\* C25 witness: Hybrid A has been written with a batch that has 1 unit for
\* (date 0, P1), stored before with 3 units, and 2 units for (date 1, P1),
\* not stored before: the table has the 3 units and the 2 units.
C25_Witness ==
    /\ last_write.cell = "Hybrid A"
    /\ ~db_error
    /\ BatchRow("Hybrid A", 0, "P1", 1) \in SeqToSet(last_write.batch[2])
    /\ BatchRow("Hybrid A", 1, "P1", 2) \in SeqToSet(last_write.batch[2])
    /\ BatchRow("Hybrid A", 0, "P1", StoredUnits) \in daily_products
    /\ BatchRow("Hybrid A", 0, "P1", 1) \notin daily_products
    /\ BatchRow("Hybrid A", 1, "P1", 2) \in daily_products
    /\ \E r \in daily_operations :
          r[c_strategy] = "Hybrid A" /\ r[c_date] = 0 /\ r[c_inbound_units] = StoredUnits

\* Every row of the batch is applied: its key is in the table.
BatchApplied(after, df, columns) ==
    \A k \in DOMAIN df : \E r \in after : SameKey(r, df[k], columns)

\* C28: each upsert_dataframe call is one transaction.  When an insert of
\* the products batch raises an error (a product that dim_products does
\* not have) none of its rows is persisted, the rows before the failing one
\* included, and daily_products is as before the call; otherwise every row
\* of the batch is applied.  The failure does not undo the operations batch
\* that the call before it has committed.
C28_Transaction ==
    [][LET ops == last_write'.batch[1]
           pro == last_write'.batch[2]
           fails == \E k \in DOMAIN pro :
                       pro[k][c_product_id] \notin DOMAIN dim_products
       IN last_write'.cell \in Hybrids =>
             /\ db_error' = fails
             /\ fails => daily_products' = daily_products
             /\ ~fails => BatchApplied(daily_products', pro, ProductKey)
             /\ BatchApplied(daily_operations', ops, OperationKey)
             /\ daily_operations \subseteq daily_operations'
      ]_vars

\* C28 witness: the write of Hybrid A on empty tables with a batch whose
\* second row has a product unknown to dim_products has failed: the first
\* row of the batch is not in daily_products, and the operations row that
\* the first call wrote is in daily_operations.
C28_Witness ==
    /\ last_write.cell = "Hybrid A"
    /\ db_error
    /\ last_write.batch[2] = <<BatchRow("Hybrid A", 0, "P1", 1),
                               BatchRow("Hybrid A", 0, "P2", 1)>>
    /\ daily_products = {}
    /\ daily_operations = SeqToSet(last_write.batch[1])
    /\ Cardinality(daily_operations) = 1

\* The rows of a table under the two base strategies.
BaseRows(table) == {r \in table : r[c_strategy] \in Strategies}

\* A step of a cell of Part 4: every cell other than a write moves on to the
\* next cell, and a write records the hybrid it has written.
HybridWriteStep ==
    /\ last_write'.cell \in Hybrids
    /\ \/ stage \in {"p4_write_a", "p4_write_b"}
       \/ stage = "p4_query" /\ stage' = "p4_query"

Part4Step == stage' # stage \/ HybridWriteStep

\* C26: every row the hybrid queries build is a base row of daily_products
\* (strategy 'weekly' or 'JIT') with the same columns and the same value in
\* every column but strategy, which is the hybrid's label; and no cell of
\* Part 4, the writes included, changes the weekly and JIT rows of
\* daily_products or of daily_operations.
C26_HybridCopiesBase ==
    [][/\ (stage = "p4_query" /\ stage' = "p4_aggregate") =>
             \A h \in Hybrids : \A k \in DOMAIN hybrid_products_df'[h] :
                 LET row == hybrid_products_df'[h][k]
                 IN /\ row[c_strategy] = h
                    /\ \E base \in BaseRows(daily_products) :
                          /\ DOMAIN base = DOMAIN row
                          /\ \A c \in DOMAIN row \ {c_strategy} : row[c] = base[c]
       /\ Part4Step =>
             /\ BaseRows(daily_products') = BaseRows(daily_products)
             /\ BaseRows(daily_operations') = BaseRows(daily_operations)
      ]_vars

\* C26 witness: both hybrids have been built from the loaded base rows and
\* written, next to the base rows.
C26_Witness ==
    /\ stage = "p4_query"
    /\ last_write.cell = "Hybrid B"
    /\ Cardinality(BaseRows(daily_products)) =
          Cardinality(StoreDates) * Cardinality(Products) * Cardinality(Strategies)
    /\ \A h \in Hybrids :
          /\ hybrid_products_df[h] # <<>>
          /\ SeqToSet(hybrid_products_df[h]) \subseteq daily_products
    /\ \E r \in daily_products : \E b \in BaseRows(daily_products) :
          /\ r[c_strategy] = "Hybrid A"
          /\ b[c_strategy] = "JIT"
          /\ r = [b EXCEPT ![c_strategy] = "Hybrid A"]

\* The rows of hybrid h that a table holds.
HybridRows(table, h) == {r \in table : r[c_strategy] = h}

\* The rows the query of hybrid h selects among the weekly and JIT rows of
\* daily_products, under the label of the hybrid.
SelectedBaseRows(h) ==
    {[b EXCEPT ![c_strategy] = h] :
        b \in {r \in BaseRows(daily_products) :
                  /\ r[c_product_id] \in DOMAIN dim_products
                  /\ IF h = "Hybrid A"
                     THEN HybridAWhere(dim_products[r[c_product_id]], r[c_strategy])
                     ELSE HybridBWhere(dim_products[r[c_product_id]], r[c_strategy])}}

\* C27: re-running Part 4 is stable.  Whatever hybrid rows daily_products
\* holds, the queries build their rows from the weekly and JIT rows alone,
\* one row per (date, product, warehouse); and once the rows of a hybrid are
\* stored, a later write of that hybrid raises no error and leaves
\* daily_products and daily_operations as they are.
C27_RerunStable ==
    [][/\ (stage = "p4_query" /\ stage' = "p4_aggregate") =>
             \A h \in Hybrids :
                 /\ SeqToSet(hybrid_products_df'[h]) = SelectedBaseRows(h)
                 /\ \A k \in DOMAIN hybrid_products_df'[h] :
                       \A l \in DOMAIN hybrid_products_df'[h] :
                          SameKey(hybrid_products_df'[h][k], hybrid_products_df'[h][l],
                                  {c_date, c_product_id, c_warehouse_id}) => k = l
       /\ (HybridWriteStep /\ HybridRows(daily_products, last_write'.cell) # {}) =>
             /\ daily_products' = daily_products
             /\ daily_operations' = daily_operations
             /\ ~db_error'
      ]_vars

\* C27 witness: the queries have run again while the rows of both hybrids
\* were stored, and have built the rows that are stored.
C27_Witness ==
    /\ stage = "p4_aggregate"
    /\ \A h \in Hybrids :
          /\ HybridRows(daily_products, h) # {}
          /\ HybridRows(daily_operations, h) # {}
          /\ SeqToSet(hybrid_products_df[h]) = HybridRows(daily_products, h)

====
